---- MODULE Spec2Model ----
(***************************************************************************)
(* Model of the screen-time tracking application:                          *)
(*   - the State Tracker (src-tauri/src/tracker.rs),                       *)
(*   - the tracking tick loop and the tracker service                      *)
(*     (src-tauri/src/main.rs),                                            *)
(*   - the Persistence Engine (src-tauri/src/db/connection.rs),            *)
(*   - the classification pipeline (src/zero_mq_service.rs).               *)
(* Spec         : tracker service = signal task + tracking task + writer.  *)
(* SpecPipeline : start_server = publisher + subscriber + sampler, and the *)
(*                orchestrator task that spawned it.                       *)
(* SpecTracker  : AppTracker::update and reset_idle_map on any snapshot.    *)
(* SpecFeed     : the AppTracker and the batches it hands out.             *)
(* SpecClassify : the tracker service next to update_classification.       *)
(* SpecFrontend : queries and administration on a store the service left.  *)
(***************************************************************************)
EXTENDS Integers, Sequences, FiniteSets, TLC

\* ------------------------------------------------------------------ bounds
MaxTicks == 2
MaxUpdates == 2
MaxTime == 2
MaxMsgs == 2
MaxSamples == 2

\* ------------------------------------------------------- program constants
IDLE_THRESHOLD_SECS == 30
idle_threshold_period == 60
MAX_RETRIES == 5
GATE_CAPACITY == 30
FETCH_LIMIT == 50
DEFAULT_TIME_LIMIT == 60
DEFAULT_ALERT_DURATION == 360

\* ---------------------------------------------------------------- values
None == "None"
UnknownApp == "Unknown App"
UnknownPath == "Unknown Path"
SessionId == "s1"
Unclassified == "Unclassified"

EmptyMap == [x \in {} |-> None]
Put(m, k, v) == [x \in (DOMAIN m) \cup {k} |-> IF x = k THEN v ELSE m[x]]
Retain(m, K) == [x \in (DOMAIN m) \cap K |-> m[x]]
Range(m) == {m[x] : x \in DOMAIN m}

\* BTreeMap iteration order of the window titles (sorted keys)
TitleOrder == <<"w1", "w2">>
Titles == {TitleOrder[i] : i \in DOMAIN TitleOrder}

\* WindowDetails {window_title, app_name?, app_path?}
Details(app, path) == [app_name |-> app, app_path |-> path]

\* A snapshot as get_window_titles builds it: the map title -> details keeps
\* the last enumerated window of a title, the map of app names has a key for
\* every enumerated window that had an app name.
MkSnapshot(win, extra) ==
    [win  |-> win,
     apps |-> ({win[t].app_name : t \in DOMAIN win} \ {None}) \cup extra]

W1a1 == Details("a1", "p1")
W1a1moved == Details("a1", "p2")
W1anon == Details(None, None)
W2a1 == Details("a1", "p1")
W2a2 == Details("a2", "p2")

SnapEmpty == MkSnapshot(EmptyMap, {})
SnapOne == MkSnapshot([t \in {"w1"} |-> W1a1], {})
SnapTwoSameApp == MkSnapshot([t \in {"w1", "w2"} |-> W1a1], {})
SnapTwoApps == MkSnapshot([t \in {"w1", "w2"} |-> IF t = "w1" THEN W1a1 ELSE W2a2], {})
SnapAnon == MkSnapshot([t \in {"w1"} |-> W1anon], {})
SnapAnonAndApp == MkSnapshot([t \in {"w1", "w2"} |-> IF t = "w1" THEN W1anon ELSE W2a2], {})
SnapShadowed == MkSnapshot([t \in {"w2"} |-> W2a2], {"a1"})
SnapMoved == MkSnapshot([t \in {"w1"} |-> W1a1moved], {})
SnapOther == MkSnapshot([t \in {"w2"} |-> W2a1], {})

AllSnapshots ==
    {SnapEmpty, SnapOne, SnapTwoSameApp, SnapTwoApps, SnapAnon, SnapAnonAndApp,
     SnapShadowed, SnapMoved, SnapOther}
ServiceSnapshots == {SnapEmpty, SnapOne, SnapTwoApps, SnapMoved}

\* idle durations (seconds) that get_last_input_info may report
IdleSamples == {5, 30, 45, 90}
ServiceIdle == {5, 45}
\* update_usage tells only whether a reading exceeds IDLE_THRESHOLD_SECS
TrackerIdle == {30, 45}

VARIABLES
    tracker,        \* AppTracker: the five previous_* collections
    nextId,         \* supply of fresh Uuid::new_v4 values
    state_tracker,  \* WindowStateTracker.previous_state
    last_window_state, \* the snapshot of the latest AppTracker::update, if any
    now,            \* wall clock, seconds
    ticks,          \* iterations of the tracking loop so far
    trackPc,        \* tracking task: "running" | "done"
    ctrl_c,         \* ctrl_c channel: "none" | "sent" | "received"
    chan,           \* unbounded channel tracker -> writer
    sentCount,      \* batches sent so far
    finalSeq,       \* sequence number of the batch sent on shutdown, 0 if none
    wPc,            \* writer: "session" | "recv" | "process" | "done"
    wBatch,         \* batch the writer holds
    appliedCount,   \* batches process_updates has been run on
    lastResult,     \* result of the last process_updates: "none" | "ok" | "err"
    db,             \* the store
    orchPc,         \* main2's server_task: "start" | "joined"
    srvPc,          \* start_server: "none" | "running" | "unbound" | "returned"
    pubPc,          \* publisher task: "none" | "init" | "loop" | "ended"
    pubEnd,         \* how the publisher task ended: "panic" | "error" | "timeout"
    subPc,          \* subscriber task: "none" | "connect" | "recv" | "update" |
                    \*                  "backoff" | "sleep" | "ended"
    subEnd,         \* how the subscriber task ended
    samplerPc,      \* usage_handle: "none" | "running" | "ended" | "aborted"
    gate,           \* the control channel of admission values
    samples,        \* admission values sent so far
    queue,          \* Publisher.queue
    pubBound,       \* the publish socket is bound
    subConnected,   \* the subscribe socket is connected
    dispatched,     \* the items sent to the classifier agent, in order
    msgCount,       \* messages the subscriber has received
    lastMsg,        \* the message the subscriber received last
    attempts,       \* update_classification: the local variable attempts
    executions,     \* executions of the UPDATE in the current update_classification
    lastCall,       \* the latest call made on the tracker or the store from
                    \* outside the two services: its name, arguments and result
    app_config,     \* APP_CONFIG: the configuration the services read
    conn,           \* DbHandler.conn: who holds the guard of the connection mutex
                    \* between two steps, "free" | "subscriber"
    manager         \* main2's app_manager_task: its position, its counter of
                    \* seconds, the rows still to visit, the row a toast holds

trackerVars == <<tracker, nextId, state_tracker, last_window_state, now, ticks, trackPc>>
chanVars == <<chan, sentCount, finalSeq>>
writerVars == <<wPc, wBatch, appliedCount, lastResult>>
pubVars == <<pubPc, pubEnd, queue, pubBound, dispatched>>
subVars == <<subPc, subEnd, subConnected, msgCount, lastMsg, attempts, executions>>
samplerVars == <<samplerPc, gate, samples>>
pipeVars == <<orchPc, srvPc, pubVars, subVars, samplerVars>>
\* what the tracker service leaves alone, and what the pipeline leaves alone
nonServiceVars == <<pipeVars, lastCall, app_config, conn, manager>>
nonPipelineVars == <<trackerVars, ctrl_c, chanVars, writerVars, lastCall, app_config, conn, manager>>
\* what update_classification leaves alone outside the pipeline
nonStoreCallVars == <<trackerVars, ctrl_c, chanVars, writerVars, lastCall, app_config,
                      manager>>
vars == <<trackerVars, ctrl_c, chanVars, writerVars, db, pipeVars, lastCall,
         app_config, conn, manager>>

\* ------------------------------------------------------------ State Tracker
\* AppTracker::new
NewTracker ==
    [previous_app_map            |-> EmptyMap,
     previous_window_usage_map   |-> EmptyMap,
     previous_classification_map |-> {},
     previous_idle_map           |-> EmptyMap,
     previous_app_usage_map      |-> EmptyMap]

\* A tracker together with the supply of fresh ids its operations draw from.
WithIds(t, id) == [t |-> t, id |-> id]

\* AppTracker::update_app
update_app(t, app_name, app_path) ==
    [t EXCEPT !.previous_app_map =
        Put(@, app_name, [name |-> app_name, path |-> app_path])]

\* Filing the AppUsage under the window title, as the WindowUsage is.
AppUsageKeyByTitle(window_title, app_name) == window_title

\* The key under which update_usage files the AppUsage of a window.
AppUsageKey(window_title, app_name) == app_name

\* An AppUsage entry that leaves an open interval as it is.
UsageAppEntryFrozen(s, window_title, app_name, current_time, start_time) ==
    LET key == AppUsageKey(window_title, app_name)
        m == s.t.previous_app_usage_map
    IN  IF key \in DOMAIN m
        THEN s
        ELSE [s EXCEPT !.t.previous_app_usage_map =
                  Put(m, key, [id |-> s.id, app_name |-> app_name,
                               start_time |-> start_time, end_time |-> current_time]),
                       !.id = s.id + 1]

\* AppTracker::update_usage, the AppUsage entry: Occupied extends end_time and
\* reuses the id, Vacant inserts a fresh interval.
UsageAppEntry(s, window_title, app_name, current_time, start_time) ==
    LET key == AppUsageKey(window_title, app_name)
        m == s.t.previous_app_usage_map
    IN  IF key \in DOMAIN m
        THEN [s EXCEPT !.t.previous_app_usage_map =
                  [m EXCEPT ![key].end_time = current_time]]
        ELSE [s EXCEPT !.t.previous_app_usage_map =
                  Put(m, key, [id |-> s.id, app_name |-> app_name,
                               start_time |-> start_time, end_time |-> current_time]),
                       !.id = s.id + 1]

\* AppTracker::update_usage, the WindowUsage entry.
UsageWindowEntry(s, window_title, app_name, current_time, app_time_id) ==
    LET m == s.t.previous_window_usage_map
    IN  IF window_title \in DOMAIN m
        THEN [s EXCEPT !.t.previous_window_usage_map =
                  [m EXCEPT ![window_title].last_updated_time = current_time]]
        ELSE [s EXCEPT !.t.previous_window_usage_map =
                  Put(m, window_title,
                      [session_id |-> SessionId, app_id |-> s.id,
                       application_name |-> app_name,
                       current_screen_title |-> window_title,
                       start_time |-> current_time,
                       last_updated_time |-> current_time,
                       app_time_id |-> app_time_id]),
                       !.id = s.id + 1]

\* An update_usage that records no idle time.
UsageIdleEntrySkipped(s, window_title, app_name, current_time, app_time_id, window_id, idle_time_secs) ==
    s

\* AppTracker::update_usage, the IdlePeriod entry.
UsageIdleEntry(s, window_title, app_name, current_time, app_time_id, window_id, idle_time_secs) ==
    LET m == s.t.previous_idle_map
    IN  IF idle_time_secs > IDLE_THRESHOLD_SECS
        THEN IF window_title \in DOMAIN m
             THEN [s EXCEPT !.t.previous_idle_map =
                       [m EXCEPT ![window_title].end_time = current_time]]
             ELSE [s EXCEPT !.t.previous_idle_map =
                       Put(m, window_title,
                           [app_id |-> app_time_id, window_id |-> window_id,
                            session_id |-> SessionId, app_name |-> app_name,
                            start_time |-> current_time, end_time |-> current_time,
                            id |-> s.id]),
                            !.id = s.id + 1]
        ELSE s

\* AppTracker::update_usage
update_usage(s, window_title, app_name, current_time, start_time, idle_time_secs) ==
    LET s1 == UsageAppEntry(s, window_title, app_name, current_time, start_time)
        app_time_id ==
            s1.t.previous_app_usage_map[AppUsageKey(window_title, app_name)].id
        s2 == UsageWindowEntry(s1, window_title, app_name, current_time, app_time_id)
        window_id == s2.t.previous_window_usage_map[window_title].app_id
    IN  UsageIdleEntry(s2, window_title, app_name, current_time, app_time_id,
                       window_id, idle_time_secs)

\* A classification set that keeps the latest app name alone.
update_classification_latest(t, app_name) ==
    [t EXCEPT !.previous_classification_map = {app_name}]

\* AppTracker::update_classification
update_classification(t, app_name) ==
    [t EXCEPT !.previous_classification_map = @ \cup {app_name}]

\* A cleanup that leaves the idle map as it is.
cleanup_keeping_idle(t, window_state) ==
    [t EXCEPT
        !.previous_app_usage_map = Retain(@, window_state.apps),
        !.previous_window_usage_map = Retain(@, DOMAIN window_state.win)]

\* AppTracker::cleanup_old_entries
cleanup_old_entries(t, window_state) ==
    [t EXCEPT
        !.previous_app_usage_map = Retain(@, window_state.apps),
        !.previous_window_usage_map = Retain(@, DOMAIN window_state.win),
        !.previous_idle_map = Retain(@, DOMAIN window_state.win)]

\* The body of the for loop of AppTracker::update for one window.
UpdateOne(s, window_state, title, current_time, start_time, idle_time_secs) ==
    LET details == window_state.win[title]
        app_name == IF details.app_name = None THEN UnknownApp ELSE details.app_name
        app_path == IF details.app_path = None THEN UnknownPath ELSE details.app_path
        s1 == [s EXCEPT !.t = update_app(@, app_name, app_path)]
        s2 == update_usage(s1, title, app_name, current_time, start_time, idle_time_secs)
    IN  [s2 EXCEPT !.t = update_classification(@, app_name)]

\* The for loop of AppTracker::update, over the titles in BTreeMap order;
\* idle[title] is what get_last_input_info returns in that window's update_usage.
RECURSIVE UpdateLoop(_, _, _, _, _, _)
UpdateLoop(s, window_state, i, current_time, start_time, idle) ==
    IF i > Len(TitleOrder) THEN s
    ELSE LET title == TitleOrder[i]
             s1 == IF title \in DOMAIN window_state.win
                   THEN UpdateOne(s, window_state, title, current_time, start_time,
                                  idle[title])
                   ELSE s
         IN  UpdateLoop(s1, window_state, i + 1, current_time, start_time, idle)

\* AppTracker::update
update(s, window_state, current_time, start_time, idle) ==
    LET s1 == UpdateLoop(s, window_state, 1, current_time, start_time, idle)
    IN  [s1 EXCEPT !.t = cleanup_old_entries(@, window_state)]

\* AppTracker::get_state
get_state(t) ==
    [apps            |-> t.previous_app_map,
     window_usages   |-> t.previous_window_usage_map,
     classifications |-> t.previous_classification_map,
     idle_periods    |-> t.previous_idle_map,
     app_usages      |-> t.previous_app_usage_map]

\* A reset that also fires with the idle duration at the threshold.
reset_idle_map_inclusive(t, idle_time_secs) ==
    IF idle_time_secs <= IDLE_THRESHOLD_SECS /\ t.previous_idle_map # EmptyMap
    THEN [t EXCEPT !.previous_idle_map = EmptyMap]
    ELSE t

\* AppTracker::reset_idle_map
reset_idle_map(t, idle_time_secs) ==
    IF idle_time_secs < IDLE_THRESHOLD_SECS /\ t.previous_idle_map # EmptyMap
    THEN [t EXCEPT !.previous_idle_map = EmptyMap]
    ELSE t

\* WindowStateTracker::has_state_changed
has_state_changed(new_state) ==
    ~state_tracker.some \/ state_tracker.value # new_state

\* -------------------------------------------------------- Persistence Engine
\* The tables of the store, each keyed by its primary key.
EmptyStore ==
    [apps                   |-> EmptyMap,
     daily_limits           |-> EmptyMap,
     app_usage_time_period  |-> EmptyMap,
     window_activity_usage  |-> EmptyMap,
     app_classifications    |-> EmptyMap,
     app_idle_time_period   |-> EmptyMap,
     sessions               |-> {}]

\* A store left behind by an earlier run of the program.
SeededStore ==
    [EmptyStore EXCEPT
        !.apps = [n \in {"a1"} |-> "p0"],
        !.daily_limits = [n \in {"a1"} |->
            [time_limit |-> 90, should_alert |-> 1, should_close |-> 0,
             alert_before_close |-> 0, alert_duration |-> 300]],
        !.app_classifications = [n \in {"a1"} |-> "Work"],
        !.sessions = {"s0"}]

InitialStores == {EmptyStore, SeededStore}

\* APP_UPSERT_QUERY
UpsertApp(d, app) == [d EXCEPT !.apps = Put(@, app.name, app.path)]

\* A default-limit upsert that replaces the row it conflicts with.
UpsertTimeLimitReplacing(d, app_name) ==
    [d EXCEPT !.daily_limits =
        Put(@, app_name,
            [time_limit |-> DEFAULT_TIME_LIMIT, should_alert |-> 0,
             should_close |-> 0, alert_before_close |-> 0,
             alert_duration |-> DEFAULT_ALERT_DURATION])]

\* UPSET_TIME_LIMIT
UpsertTimeLimit(d, app_name) ==
    IF app_name \in DOMAIN d.daily_limits THEN d
    ELSE [d EXCEPT !.daily_limits =
            Put(@, app_name,
                [time_limit |-> DEFAULT_TIME_LIMIT, should_alert |-> 0,
                 should_close |-> 0, alert_before_close |-> 0,
                 alert_duration |-> DEFAULT_ALERT_DURATION])]

\* A variant of the app_usage_time_period upsert that adds to end_time
\* instead of overwriting it.
UpsertAppUsageAccumulating(d, u) ==
    IF u.id \in DOMAIN d.app_usage_time_period
    THEN [d EXCEPT !.app_usage_time_period[u.id].end_time = @ + u.end_time]
    ELSE [d EXCEPT !.app_usage_time_period =
            Put(@, u.id, [app_name |-> u.app_name, start_time |-> u.start_time,
                          end_time |-> u.end_time])]

\* INSERT INTO app_usage_time_period ... ON CONFLICT(id) DO UPDATE SET end_time
UpsertAppUsage(d, u) ==
    IF u.id \in DOMAIN d.app_usage_time_period
    THEN [d EXCEPT !.app_usage_time_period[u.id].end_time = u.end_time]
    ELSE [d EXCEPT !.app_usage_time_period =
            Put(@, u.id, [app_name |-> u.app_name, start_time |-> u.start_time,
                          end_time |-> u.end_time])]

\* USAGE_UPSERT_QUERY
UpsertWindowUsage(d, w) ==
    IF w.app_id \in DOMAIN d.window_activity_usage
    THEN [d EXCEPT !.window_activity_usage[w.app_id].last_updated_time =
            w.last_updated_time]
    ELSE [d EXCEPT !.window_activity_usage =
            Put(@, w.app_id,
                [session_id |-> w.session_id, app_time_id |-> w.app_time_id,
                 application_name |-> w.application_name,
                 current_screen_title |-> w.current_screen_title,
                 start_time |-> w.start_time,
                 last_updated_time |-> w.last_updated_time])]

\* A placeholder insert that replaces the row it conflicts with.
UpsertClassificationReplacing(d, app_name) ==
    [d EXCEPT !.app_classifications = Put(@, app_name, None)]

\* CLASSIFICATION_UPSET_QUERY
UpsertClassification(d, app_name) ==
    IF app_name \in DOMAIN d.app_classifications THEN d
    ELSE [d EXCEPT !.app_classifications = Put(@, app_name, None)]

\* An idle upsert that moves the start of the stored period on conflict.
UpsertIdlePeriodMovingStart(d, p) ==
    IF p.id \in DOMAIN d.app_idle_time_period
    THEN [d EXCEPT !.app_idle_time_period[p.id].start_time = p.end_time]
    ELSE [d EXCEPT !.app_idle_time_period =
            Put(@, p.id,
                [app_id |-> p.app_id, window_id |-> p.window_id,
                 session_id |-> p.session_id, app_name |-> p.app_name,
                 start_time |-> p.start_time, end_time |-> p.end_time])]

\* INSERT INTO app_idle_time_period ... ON CONFLICT(id) DO UPDATE SET end_time
UpsertIdlePeriod(d, p) ==
    IF p.id \in DOMAIN d.app_idle_time_period
    THEN [d EXCEPT !.app_idle_time_period[p.id].end_time = p.end_time]
    ELSE [d EXCEPT !.app_idle_time_period =
            Put(@, p.id,
                [app_id |-> p.app_id, window_id |-> p.window_id,
                 session_id |-> p.session_id, app_name |-> p.app_name,
                 start_time |-> p.start_time, end_time |-> p.end_time])]

\* The elements of a finite set in some order (a HashMap's iteration order).
RECURSIVE SetToSeq(_)
SetToSeq(S) ==
    IF S = {} THEN << >>
    ELSE LET x == CHOOSE y \in S : TRUE IN <<x>> \o SetToSeq(S \ {x})

RECURSIVE Flatten(_)
Flatten(ss) == IF ss = << >> THEN << >> ELSE Head(ss) \o Flatten(Tail(ss))

Stmt(kind, arg) == [kind |-> kind, arg |-> arg]

\* A batch whose idle periods are written before the window usages they
\* refer to.
BatchStatementsIdleFirst(b) ==
    LET appKeys == SetToSeq(DOMAIN b.apps)
        timeKeys == SetToSeq(DOMAIN b.app_usages)
        winKeys == SetToSeq(DOMAIN b.window_usages)
        clsKeys == SetToSeq(b.classifications)
        idleKeys == SetToSeq(DOMAIN b.idle_periods)
    IN  Flatten([i \in 1..Len(appKeys) |->
                   <<Stmt("app", b.apps[appKeys[i]]),
                     Stmt("limit", b.apps[appKeys[i]].name)>>])
        \o [i \in 1..Len(timeKeys) |-> Stmt("app_time", b.app_usages[timeKeys[i]])]
        \o [i \in 1..Len(idleKeys) |-> Stmt("idle", b.idle_periods[idleKeys[i]])]
        \o [i \in 1..Len(winKeys) |-> Stmt("usage", b.window_usages[winKeys[i]])]
        \o [i \in 1..Len(clsKeys) |-> Stmt("classification", clsKeys[i])]

\* The statements process_updates executes for a batch, in its order:
\* per app the app upsert and the default limit, then the app-time intervals,
\* the window usages, the classification placeholders, the idle periods.
BatchStatements(b) ==
    LET appKeys == SetToSeq(DOMAIN b.apps)
        timeKeys == SetToSeq(DOMAIN b.app_usages)
        winKeys == SetToSeq(DOMAIN b.window_usages)
        clsKeys == SetToSeq(b.classifications)
        idleKeys == SetToSeq(DOMAIN b.idle_periods)
    IN  Flatten([i \in 1..Len(appKeys) |->
                   <<Stmt("app", b.apps[appKeys[i]]),
                     Stmt("limit", b.apps[appKeys[i]].name)>>])
        \o [i \in 1..Len(timeKeys) |-> Stmt("app_time", b.app_usages[timeKeys[i]])]
        \o [i \in 1..Len(winKeys) |-> Stmt("usage", b.window_usages[winKeys[i]])]
        \o [i \in 1..Len(clsKeys) |-> Stmt("classification", clsKeys[i])]
        \o [i \in 1..Len(idleKeys) |-> Stmt("idle", b.idle_periods[idleKeys[i]])]

\* tx.execute of one statement
Execute(d, st) ==
    CASE st.kind = "app" -> UpsertApp(d, st.arg)
      [] st.kind = "limit" -> UpsertTimeLimit(d, st.arg)
      [] st.kind = "app_time" -> UpsertAppUsage(d, st.arg)
      [] st.kind = "usage" -> UpsertWindowUsage(d, st.arg)
      [] st.kind = "classification" -> UpsertClassification(d, st.arg)
      [] st.kind = "idle" -> UpsertIdlePeriod(d, st.arg)

\* The connection's view after the first n statements of stmts.
RECURSIVE ExecutePrefix(_, _, _)
ExecutePrefix(d, stmts, n) ==
    IF n = 0 THEN d
    ELSE Execute(ExecutePrefix(d, stmts, n - 1), stmts[n])

\* A connection whose writes are not undone when the transaction is dropped.
EndTransactionKeeping(before, working, failed) == working

\* How the transaction ends: tx.commit() keeps the writes; a Transaction
\* dropped on an early return (or after a failed COMMIT) rolls back.
EndTransaction(before, working, failed) ==
    IF failed THEN before ELSE working

\* Where a batch can fail: 0 nowhere, i the i-th statement, Len + 1 the commit.
FailPoints(b) == 0..(Len(BatchStatements(b)) + 1)

\* process_updates: the store afterwards and the result returned.
process_updates(d, b, failAt) ==
    LET stmts == BatchStatements(b)
        executed == IF failAt = 0 THEN Len(stmts) ELSE failAt - 1
        working == ExecutePrefix(d, stmts, executed)
    IN  [db     |-> EndTransaction(d, working, failAt # 0),
         result |-> IF failAt = 0 THEN "ok" ELSE "err"]

\* DbHandler::update_session: SESSION_UPSET_QUERY is a plain INSERT, which
\* fails on an existing id; `failed` is any other error of conn.execute. The
\* caller ignores the error returned.
update_session(d, session_id, failed) ==
    IF failed \/ session_id \in d.sessions THEN d
    ELSE [d EXCEPT !.sessions = @ \cup {session_id}]

\* ------------------------------------------------------------ tracker service
\* Successive readings of get_last_input_info within one tick: the idle
\* duration stays, grows past the next boundary, or restarts on user input.
IdleOrder == <<5, 30, 45, 90>>
IdleRank(v) == CHOOSE i \in DOMAIN IdleOrder : IdleOrder[i] = v
IdleNext(v, idles) ==
    {w \in idles : \/ w = v
                   \/ IdleRank(w) = IdleRank(v) + 1
                   \/ w = IdleOrder[1]}

\* The two reads of the clock in AppTracker::update can straddle a second.
ClockSkews == {0, 1}
ClockSteps == {0, 1}
ServiceSteps == {1}
ServiceSkews == {0}

\* rx.recv(): the element of the queue the receiver is handed.
RecvIndexNewest(q) == Len(q)

RecvIndex(q) == 1

\* Whether the shutdown arm of track_application_usage sends the state.
FlushOnShutdownSkipped == FALSE

FlushOnShutdown == TRUE

Send(q, data, seq) == Append(q, [seq |-> seq, data |-> data])

\* A call kept in lastCall.
Call(op, args, result) == [op |-> op, args |-> args, result |-> result]
NoCall == Call("none", None, None)

\* One iteration of the tick arm of the select! in track_application_usage,
\* with the snapshot, the idle readings and the clock drawn from the sets
\* given; `due` is needs_update(db_update_interval). With `record` the
\* iteration is also kept in lastCall: the snapshot, the reading of the tick
\* arm, the reading update took for each window, and whether it updated.
TickArm(record, snaps, idles, steps, skews, maxTicks, maxTime) ==
    /\ trackPc = "running"
    /\ ticks < maxTicks
    /\ \E window_state \in snaps, idle0 \in idles, due \in BOOLEAN,
          step \in steps, skew \in skews :
        \E idle1 \in IdleNext(idle0, idles) :
        \E idle2 \in IdleNext(idle1, idles) :
        \E idle3 \in IdleNext(idle2, idles) :
          LET current_time == now + step
              start_time == current_time + skew
              idle == [t \in Titles |-> IF t = TitleOrder[1] THEN idle1 ELSE idle2]
              should_update ==
                  \/ has_state_changed(window_state.win)
                  \/ due
                  \/ idle0 > app_config.idle_threshold_period
              s == update(WithIds(tracker, nextId), window_state,
                          current_time, start_time, idle)
          IN  /\ ticks' = ticks + 1
              /\ IF should_update
                 THEN /\ start_time <= maxTime
                      /\ now' = start_time
                      /\ state_tracker' = [some |-> TRUE, value |-> window_state.win]
                      /\ last_window_state' = [some |-> TRUE, value |-> window_state]
                      /\ nextId' = s.id
                      /\ chan' = Send(chan, get_state(s.t), sentCount + 1)
                      /\ sentCount' = sentCount + 1
                      /\ tracker' = reset_idle_map(s.t, idle3)
                 ELSE /\ current_time <= maxTime
                      /\ now' = current_time
                      /\ UNCHANGED <<state_tracker, last_window_state, nextId, chan,
                                     sentCount, tracker>>
              /\ lastCall' = IF record
                             THEN Call("tick",
                                       [window_state |-> window_state, idle0 |-> idle0,
                                        idle |-> idle, idle3 |-> idle3],
                                       should_update)
                             ELSE lastCall
    /\ UNCHANGED <<trackPc, finalSeq, ctrl_c, writerVars, db, pipeVars, app_config, conn, manager>>

TrackTick(snaps, idles, steps, skews) ==
    TickArm(FALSE, snaps, idles, steps, skews, MaxTicks, MaxTime)

\* The shutdown arm of the select!: flush the current state and leave the loop.
TrackShutdown ==
    /\ trackPc = "running"
    /\ ctrl_c = "sent"
    /\ ctrl_c' = "received"
    /\ trackPc' = "done"
    /\ IF FlushOnShutdown
       THEN /\ chan' = Send(chan, get_state(tracker), sentCount + 1)
            /\ sentCount' = sentCount + 1
            /\ finalSeq' = sentCount + 1
       ELSE UNCHANGED <<chan, sentCount, finalSeq>>
    /\ UNCHANGED <<tracker, nextId, state_tracker, last_window_state, now, ticks,
                   writerVars, db>>
    /\ UNCHANGED nonServiceVars

\* signal_task of tracker_service_main
SignalCtrlC ==
    /\ ctrl_c = "none"
    /\ ctrl_c' = "sent"
    /\ UNCHANGED <<trackerVars, chanVars, writerVars, db>>
    /\ UNCHANGED nonServiceVars

\* upsert_app_usage, before the loop
WriterSession ==
    /\ wPc = "session"
    /\ conn = "free"
    /\ \E failed \in BOOLEAN : db' = update_session(db, SessionId, failed)
    /\ wPc' = "recv"
    /\ UNCHANGED <<trackerVars, ctrl_c, chanVars, wBatch, appliedCount, lastResult>>
    /\ UNCHANGED nonServiceVars

\* upsert_app_usage: rx.recv().await hands over the next batch, or None once
\* the channel is empty and the sender is gone.
WriterRecv ==
    /\ wPc = "recv"
    /\ \/ /\ chan # << >>
          /\ LET i == RecvIndex(chan)
             IN  /\ wBatch' = chan[i]
                 /\ chan' = [j \in 1..(Len(chan) - 1) |->
                               IF j < i THEN chan[j] ELSE chan[j + 1]]
          /\ wPc' = "process"
       \/ /\ chan = << >>
          /\ trackPc = "done"
          /\ wPc' = "done"
          /\ UNCHANGED <<chan, wBatch>>
    /\ UNCHANGED <<trackerVars, ctrl_c, sentCount, finalSeq, appliedCount,
                   lastResult, db>>
    /\ UNCHANGED nonServiceVars

\* A writer that leaves its loop on the first error.
AfterBatchStopOnError(result) == IF result = "err" THEN "done" ELSE "recv"

\* upsert_app_usage: `if let Err(err) = result { error!(..) }` ends the body
\* of the while loop, whose next pass is rx.recv().
AfterBatch(result) == "recv"

\* upsert_app_usage: process_updates on the batch received, the error logged.
\* process_updates takes the connection mutex first. With `record` the call
\* is also kept in lastCall, beside what the subscriber was doing.
WriterApply(record) ==
    /\ wPc = "process"
    /\ conn = "free"
    /\ \E failAt \in FailPoints(wBatch.data) :
         LET r == process_updates(db, wBatch.data, failAt)
         IN  /\ db' = r.db
             /\ lastResult' = r.result
             /\ lastCall' = IF record
                            THEN Call("process_updates",
                                      [seq |-> wBatch.seq, subPc |-> subPc,
                                       attempts |-> attempts],
                                      r.result)
                            ELSE lastCall
             /\ wPc' = AfterBatch(r.result)
    /\ appliedCount' = appliedCount + 1
    /\ UNCHANGED <<trackerVars, ctrl_c, chanVars, wBatch, pipeVars, app_config, conn, manager>>

WriterProcess == WriterApply(FALSE)

\* ------------------------------------------------------------ configuration
\* Percentages are whole percent points; the f32 comparisons of the source
\* agree with the integer ones on them.
\* impl Default for AppConfig
AppConfigDefault ==
    [cpu_threshold |-> 25, gpu_threshold |-> 15, ram_usage |-> 75, gpu_ram |-> 10,
     timeout |-> 900, db_update_interval |-> 30,
     idle_threshold_period |-> idle_threshold_period]

FloatFields == {"cpu_threshold", "gpu_threshold", "ram_usage", "gpu_ram"}
IntFields == {"timeout", "db_update_interval", "idle_threshold_period"}
ConfigFields == FloatFields \cup IntFields

\* The bounds visit_map passes to clamp, per key.
ClampRange ==
    [cpu_threshold |-> <<1, 100>>, gpu_threshold |-> <<1, 100>>,
     ram_usage |-> <<1, 100>>, gpu_ram |-> <<1, 100>>,
     timeout |-> <<900, 21600>>, db_update_interval |-> <<1, 900>>,
     idle_threshold_period |-> <<30, 3600>>]

\* A clamp that has no upper bound.
clamp_below_only(v, min, max) == IF v < min THEN min ELSE v

\* Ord::clamp / f32::clamp
clamp(v, min, max) == IF v < min THEN min ELSE IF v > max THEN max ELSE v

\* map.next_value::<u64>(): a JSON integer below zero is not a u64. (The
\* inputs of the model stay far below 2^64, the other end of the type.)
next_value_u64(v) == [ok |-> v >= 0, value |-> v]

\* map.next_value::<f32>(): every JSON number is accepted.
next_value_f32(v) == [ok |-> TRUE, value |-> v]

next_value(key, v) == IF key \in IntFields THEN next_value_u64(v) ELSE next_value_f32(v)

\* AppConfigVisitor::visit_map on a JSON object given as a function from its
\* keys (a subset of the field names) to numbers.
visit_map(map) ==
    IF \E key \in DOMAIN map : ~next_value(key, map[key]).ok
    THEN [ok |-> FALSE, error |-> "invalid_value", config |-> AppConfigDefault]
    ELSE IF ~(ConfigFields \subseteq DOMAIN map)
    THEN [ok |-> FALSE, error |-> "missing_field", config |-> AppConfigDefault]
    ELSE [ok |-> TRUE, error |-> None,
          config |-> [key \in ConfigFields |->
                        clamp(next_value(key, map[key]).value,
                              ClampRange[key][1], ClampRange[key][2])]]

\* open_or_create_file on a readable file holding the object: the parsed
\* configuration, or the default one when parsing fails.
open_or_create_file(map) ==
    LET r == visit_map(map) IN IF r.ok THEN r.config ELSE AppConfigDefault

NoBatch == [seq |-> 0, data |-> get_state(NewTracker)]
NoMessage == [kind |-> "none", name |-> None, classification |-> None]

InitCommon ==
    /\ tracker = NewTracker
    /\ nextId = 1
    /\ state_tracker = [some |-> FALSE, value |-> EmptyMap]
    /\ last_window_state = [some |-> FALSE, value |-> SnapEmpty]
    /\ now = 0
    /\ ticks = 0
    /\ trackPc = "running"
    /\ ctrl_c = "none"
    /\ chan = << >>
    /\ sentCount = 0
    /\ finalSeq = 0
    /\ wPc = "session"
    /\ wBatch = NoBatch
    /\ appliedCount = 0
    /\ lastResult = "none"
    /\ orchPc = "start"
    /\ srvPc = "none"
    /\ pubPc = "none"
    /\ pubEnd = "none"
    /\ subPc = "none"
    /\ subEnd = "none"
    /\ samplerPc = "none"
    /\ gate = << >>
    /\ samples = 0
    /\ queue = << >>
    /\ pubBound = FALSE
    /\ subConnected = FALSE
    /\ dispatched = << >>
    /\ msgCount = 0
    /\ lastMsg = NoMessage
    /\ attempts = 0
    /\ executions = 0
    /\ lastCall = NoCall
    /\ app_config = AppConfigDefault
    /\ conn = "free"
    /\ manager = [pc |-> "query", seconds |-> 0, details |-> << >>, toast |-> << >>]

Init == InitCommon /\ db \in InitialStores

InitTracker == InitCommon /\ db = EmptyStore

Next ==
    \/ TrackTick(ServiceSnapshots, ServiceIdle, ServiceSteps, ServiceSkews)
    \/ TrackShutdown
    \/ SignalCtrlC
    \/ WriterSession
    \/ WriterRecv
    \/ WriterProcess

Spec == Init /\ [][Next]_vars

\* ---------------------------------------------------- the AppTracker alone
\* AppTracker::update called with any snapshot, at any time.
TrackerUpdate ==
    /\ ticks < MaxUpdates
    /\ \E window_state \in AllSnapshots, step \in ClockSteps, skew \in ClockSkews,
          idle1 \in TrackerIdle :
        \E idle2 \in IdleNext(idle1, TrackerIdle) :
          LET current_time == now + step
              start_time == current_time + skew
              idle == [t \in Titles |-> IF t = TitleOrder[1] THEN idle1 ELSE idle2]
              s == update(WithIds(tracker, nextId), window_state,
                          current_time, start_time, idle)
          IN  /\ tracker' = s.t
              /\ nextId' = s.id
              /\ now' = start_time
              /\ last_window_state' = [some |-> TRUE, value |-> window_state]
    /\ ticks' = ticks + 1
    /\ UNCHANGED <<state_tracker, trackPc, ctrl_c, chanVars, writerVars, db>>
    /\ UNCHANGED nonServiceVars

\* AppTracker::reset_idle_map called at any time.
TrackerResetIdle ==
    /\ \E idle_time_secs \in IdleSamples :
         tracker' = reset_idle_map(tracker, idle_time_secs)
    /\ UNCHANGED <<nextId, state_tracker, last_window_state, now, ticks, trackPc,
                   ctrl_c, chanVars, writerVars, db>>
    /\ UNCHANGED nonServiceVars

NextTracker == TrackerUpdate \/ TrackerResetIdle

SpecTracker == InitTracker /\ [][NextTracker]_vars

\* ---------------------------------------------------- classification pipeline
Min(a, b) == IF a < b THEN a ELSE b

\* A store with apps awaiting classification.
UnclassifiedStore ==
    [EmptyStore EXCEPT
        !.apps = [n \in {"a1", "a2"} |-> IF n = "a1" THEN "p1" ELSE "p2"],
        !.app_classifications =
            [n \in {"a1", "a2"} |-> IF n = "a1" THEN None ELSE Unclassified]]

PipelineStores == {SeededStore, UnclassifiedStore}

\* What the subscribe socket can hand to recv_string.
Classified(name, classification) ==
    [kind |-> "classified", name |-> name, classification |-> classification]
Undecodable(kind) == [kind |-> kind, name |-> None, classification |-> None]
Incoming ==
    {Classified("a1", "Game"), Classified("a2", "Game"), Classified("a1", None),
     Undecodable("not_utf8"), Undecodable("not_json"), Undecodable("missing_field"),
     Undecodable("recv_error")}

\* Subscriber::recv_message up to the deserialized ClassificationSerde:
\* recv_string's inner result (UTF-8), then serde_json::from_str.
Decode(msg) ==
    [utf8 |-> msg.kind # "not_utf8",
     json |-> msg.kind = "classified",
     data |-> [name |-> msg.name, classification |-> msg.classification]]

\* What recv_message does with a message it cannot decode: both unwrap()s panic.
OnUndecodable == "panic"

\* A fetch without the WHERE clause.
fetch_every_classification(d, ioFail) ==
    LET names == SetToSeq(DOMAIN d.app_classifications)
        n == Min(Len(names), FETCH_LIMIT)
        rows == [i \in 1..n |->
                   [name |-> names[i],
                    path |-> IF names[i] \in DOMAIN d.apps
                             THEN d.apps[names[i]] ELSE None,
                    classification |-> d.app_classifications[names[i]]]]
    IN  [ok   |-> ~ioFail /\ \A i \in 1..n : rows[i].path # None,
         rows |-> rows]

\* The ClassificationSerde a row of the SELECT is mapped to; the path is None
\* when the LEFT JOIN finds no app.
ClassificationRow(d, name) ==
    [name |-> name,
     path |-> IF name \in DOMAIN d.apps THEN d.apps[name] ELSE None,
     classification |-> d.app_classifications[name]]

\* DbHandler::fetch_all_classification: the rows the WHERE clause selects, in
\* the order of the scan, up to the LIMIT.
fetch_all_classification(d, ioFail) ==
    LET selected == {n \in DOMAIN d.app_classifications :
                        d.app_classifications[n] \in {None, Unclassified}}
        Scan[S \in SUBSET selected, limit \in 0..FETCH_LIMIT] ==
            IF S = {} \/ limit = 0 THEN << >>
            ELSE LET x == CHOOSE y \in S : TRUE
                 IN  <<ClassificationRow(d, x)>> \o Scan[S \ {x}, limit - 1]
        rows == Scan[selected, FETCH_LIMIT]
    IN  [ok   |-> ~ioFail /\ \A i \in DOMAIN rows : rows[i].path # None,
         rows |-> rows]

\* A refill that does not look whether the queue is empty.
update_task_queue_always(q, d, ioFail) ==
    LET r == fetch_all_classification(d, ioFail)
    IN  [ok |-> r.ok, queue |-> IF r.ok THEN q \o r.rows ELSE q]

\* Publisher::update_task_queue
update_task_queue(q, d, ioFail) ==
    IF q = << >>
    THEN LET r == fetch_all_classification(d, ioFail)
         IN  [ok |-> r.ok, queue |-> IF r.ok THEN r.rows ELSE q]
    ELSE [ok |-> TRUE, queue |-> q]

\* RecvFuture::next: the head of the control channel, or None once it is
\* empty and its sender is gone.
GateRecv == IF gate # << >> THEN [some |-> TRUE, value |-> Head(gate)]
            ELSE [some |-> FALSE, value |-> FALSE]

\* A gate that lets any received value through.
PermitsDispatchAny(r) == r.some

\* call_classifier_agent: if let Some(true) = recv.next().await
PermitsDispatch(r) == r.some /\ r.value

\* A retry test that allows one more round.
RetryAllowedInclusive(n) == n <= MAX_RETRIES

\* update_classification: attempts < MAX_RETRIES
RetryAllowed(n) == n < MAX_RETRIES

\* The UPDATE of update_classification
UpdateClassificationRow(d, data) ==
    IF data.name \in DOMAIN d.app_classifications
    THEN [d EXCEPT !.app_classifications[data.name] = data.classification]
    ELSE d

\* ------------------------------------------------------- admission sampling
\* What Machine::gpu_usage can return: an error, or the two averages.
GpuSamples ==
    {[ok |-> FALSE, gpu |-> 0, mem |-> 0],
     [ok |-> TRUE, gpu |-> 14, mem |-> 100],
     [ok |-> TRUE, gpu |-> 15, mem |-> 0]}
CpuSamples == {25, 26}
RamSamples == {74, 75}
SamplerIdle == {30, 31, 60, 61}
GPU_MEM_LIMIT == 150

\* Machine::get_system_usage: gpu_usage().unwrap_or((0.0, 0.0))
get_system_usage(cpu, ram, gpu) ==
    [cpu_usage |-> cpu, ram_usage |-> ram,
     gpu_usage |-> IF gpu.ok THEN gpu.gpu ELSE 0,
     gpu_mem_usage |-> IF gpu.ok THEN gpu.mem ELSE 0]

\* A check that wants the cpu usage strictly under its threshold.
check_system_usage_strict(is_idle, metrics, config) ==
    /\ metrics.cpu_usage < config.cpu_threshold
    /\ metrics.ram_usage < config.ram_usage
    /\ is_idle
    /\ metrics.gpu_usage < config.gpu_threshold
    /\ metrics.gpu_mem_usage < GPU_MEM_LIMIT

\* Machine::check_system_usage
check_system_usage(is_idle, metrics, config) ==
    /\ metrics.cpu_usage <= config.cpu_threshold
    /\ metrics.ram_usage < config.ram_usage
    /\ is_idle
    /\ metrics.gpu_usage < config.gpu_threshold
    /\ metrics.gpu_mem_usage < GPU_MEM_LIMIT

\* usage_handle: the value of sys_usage one iteration sends
sys_usage(idle_time, cpu, ram, gpu, config) ==
    LET is_idle == idle_time > config.idle_threshold_period
    IN  IF is_idle
        THEN check_system_usage(is_idle, get_system_usage(cpu, ram, gpu), config)
        ELSE FALSE

AbortSampler == IF samplerPc = "running" THEN "aborted" ELSE samplerPc

\* main2: server_task = task::spawn(start_server(...)); start_server creates
\* the publisher, the subscriber and the sampler tasks.
OrchSpawnServer ==
    /\ orchPc = "start"
    /\ orchPc' = "joined"
    /\ srvPc' = "running"
    /\ pubPc' = "init"
    /\ pubBound' = TRUE
    /\ subPc' = "connect"
    /\ samplerPc' = "running"
    /\ UNCHANGED <<pubEnd, queue, dispatched, subEnd, subConnected, msgCount, lastMsg,
                   attempts, executions, gate, samples, db>>
    /\ UNCHANGED nonPipelineVars

\* call_classifier_agent, before the loop
PubInit ==
    /\ pubPc = "init"
    /\ conn = "free"
    /\ \E ioFail \in BOOLEAN :
         LET r == update_task_queue(queue, db, ioFail)
         IN  /\ queue' = r.queue
             /\ pubPc' = IF r.ok THEN "loop" ELSE "ended"
             /\ pubEnd' = IF r.ok THEN pubEnd ELSE "error"
             /\ gate' = IF r.ok THEN gate ELSE << >>
    /\ UNCHANGED <<orchPc, srvPc, pubBound, dispatched, subVars, samplerPc, samples, db>>
    /\ UNCHANGED nonPipelineVars

\* One iteration of the loop of call_classifier_agent. `dispatched` keeps
\* every item sent on the socket with `keepAll`, and the latest one without.
PubStep(keepAll) ==
    /\ pubPc = "loop"
    /\ gate # << >> \/ samplerPc \in {"ended", "aborted"}
    /\ LET r == GateRecv
           rest == IF gate # << >> THEN Tail(gate) ELSE gate
       IN  IF PermitsDispatch(r)
           THEN IF queue = << >>
                THEN /\ pubPc' = "ended"
                     /\ pubEnd' = "panic"
                     /\ gate' = << >>
                     /\ UNCHANGED <<queue, dispatched>>
                ELSE \E ioFail \in BOOLEAN :
                       LET q == update_task_queue(Tail(queue), db, ioFail)
                       IN  /\ Tail(queue) = << >> => conn = "free"
                           /\ dispatched' = IF keepAll
                                            THEN Append(dispatched, Head(queue).name)
                                            ELSE <<Head(queue).name>>
                           /\ queue' = q.queue
                           /\ pubPc' = IF q.ok THEN "loop" ELSE "ended"
                           /\ pubEnd' = IF q.ok THEN pubEnd ELSE "error"
                           /\ gate' = IF q.ok THEN rest ELSE << >>
           ELSE /\ gate' = rest
                /\ UNCHANGED <<pubPc, pubEnd, queue, dispatched>>
    /\ UNCHANGED <<orchPc, srvPc, pubBound, subVars, samplerPc, samples, db>>
    /\ UNCHANGED nonPipelineVars

PubIter == PubStep(TRUE)

\* tokio::time::timeout around call_classifier_agent elapses.
PubTimeout ==
    /\ pubPc \in {"init", "loop"}
    /\ pubPc' = "ended"
    /\ pubEnd' = "timeout"
    /\ gate' = << >>
    /\ UNCHANGED <<orchPc, srvPc, queue, pubBound, dispatched, subVars, samplerPc,
                   samples, db>>
    /\ UNCHANGED nonPipelineVars

\* One iteration of usage_handle: read the configuration, the idle time and
\* the machine's usage, compute the admission value and send it. The readings
\* are drawn from the sets given; with `record` the iteration is also kept in
\* lastCall. With `bounded` the iterations are counted in `samples` and end
\* after MaxSamples; without, the loop goes on as in the program.
SamplerLoop(record, bounded, idles, cpus, rams, gpus) ==
    /\ samplerPc = "running"
    /\ bounded => samples < MaxSamples
    /\ IF pubPc = "ended"
       THEN /\ samplerPc' = "ended"
            /\ UNCHANGED <<gate, samples, lastCall>>
       ELSE /\ Len(gate) < GATE_CAPACITY
            /\ \E idle_time \in idles, cpu \in cpus, ram \in rams, gpu \in gpus :
                 LET v == sys_usage(idle_time, cpu, ram, gpu, app_config)
                 IN  /\ gate' = Append(gate, v)
                     /\ lastCall' = IF record
                                    THEN Call("check_system_usage",
                                              [n |-> samples + 1, idle_time |-> idle_time,
                                               cpu |-> cpu, ram |-> ram, gpu |-> gpu,
                                               config |-> app_config],
                                              v)
                                    ELSE lastCall
            /\ samples' = IF bounded THEN samples + 1 ELSE samples
            /\ UNCHANGED samplerPc
    /\ UNCHANGED <<orchPc, srvPc, pubVars, subVars, db>>
    /\ UNCHANGED <<trackerVars, ctrl_c, chanVars, writerVars, app_config, conn, manager>>

SamplerIter(record, idles, cpus, rams, gpus) ==
    SamplerLoop(record, TRUE, idles, cpus, rams, gpus)

\* The sampler within the classification service: one reading that admits and
\* one that does not.
PipelineIdle == {60, 61}
PipelineCpu == {25}
PipelineRam == {74}
PipelineGpu == {[ok |-> FALSE, gpu |-> 0, mem |-> 0]}
SamplerTick == SamplerIter(FALSE, PipelineIdle, PipelineCpu, PipelineRam, PipelineGpu)

\* recv_message: lock the socket, connect and subscribe.
SubConnect ==
    /\ subPc = "connect"
    /\ subConnected' = TRUE
    /\ subPc' = "recv"
    /\ UNCHANGED <<orchPc, srvPc, pubVars, subEnd, msgCount, lastMsg, attempts,
                   executions, samplerVars, db>>
    /\ UNCHANGED nonPipelineVars

\* recv_message: recv_string returns.
SubRecv ==
    /\ subPc = "recv"
    /\ msgCount < MaxMsgs
    /\ \E msg \in Incoming :
         LET m == Decode(msg)
             next == IF msg.kind = "recv_error" THEN "sleep"
                     ELSE IF m.utf8 /\ m.json THEN "update"
                     ELSE OnUndecodable
         IN  /\ lastMsg' = msg
             /\ subPc' = IF next = "panic" THEN "ended" ELSE next
             /\ subEnd' = IF next = "panic" THEN "panic" ELSE subEnd
    /\ msgCount' = msgCount + 1
    /\ attempts' = 0
    /\ executions' = 0
    /\ UNCHANGED <<orchPc, srvPc, pubVars, subConnected, samplerVars, db>>
    /\ UNCHANGED nonPipelineVars

\* A retry that keeps the guard of the connection mutex while it sleeps.
GuardKeptDuringBackoff == "subscriber"

\* update_classification: drop(conn) before the sleep between two attempts
GuardDuringBackoff == "free"

\* update_classification: one pass of its loop, up to the sleep or the return.
SubUpdateAttempt ==
    /\ subPc = "update"
    /\ conn = "free"
    /\ executions' = executions + 1
    /\ \E outcome \in {"ok", "locked", "failed"} :
         CASE outcome = "ok" ->
                /\ db' = UpdateClassificationRow(db, Decode(lastMsg).data)
                /\ subPc' = "sleep"
                /\ conn' = "free"
                /\ UNCHANGED <<attempts, subEnd>>
           [] outcome = "locked" ->
                /\ IF RetryAllowed(attempts)
                   THEN /\ attempts' = attempts + 1
                        /\ subPc' = "backoff"
                        /\ conn' = GuardDuringBackoff
                        /\ UNCHANGED subEnd
                   ELSE /\ subPc' = "ended"
                        /\ subEnd' = "error"
                        /\ conn' = "free"
                        /\ UNCHANGED attempts
                /\ UNCHANGED db
           [] outcome = "failed" ->
                /\ subPc' = "ended"
                /\ subEnd' = "error"
                /\ conn' = "free"
                /\ UNCHANGED <<attempts, db>>
    /\ UNCHANGED <<orchPc, srvPc, pubVars, subConnected, msgCount, lastMsg, samplerVars>>
    /\ UNCHANGED nonStoreCallVars

\* update_classification: the sleep between two attempts is over; the next
\* iteration of its loop takes the mutex again.
SubBackoff ==
    /\ subPc = "backoff"
    /\ subPc' = "update"
    /\ conn' = "free"
    /\ UNCHANGED <<orchPc, srvPc, pubVars, subEnd, subConnected, msgCount, lastMsg,
                   attempts, executions, samplerVars, db>>
    /\ UNCHANGED nonStoreCallVars

\* recv_message: the sleep that ends an iteration is over.
SubSleep ==
    /\ subPc = "sleep"
    /\ subPc' = "recv"
    /\ UNCHANGED <<orchPc, srvPc, pubVars, subEnd, subConnected, msgCount, lastMsg,
                   attempts, executions, samplerVars, db>>
    /\ UNCHANGED nonPipelineVars

\* tokio::time::timeout around recv_message elapses (at one of its awaits).
SubTimeout ==
    /\ subPc \in {"update", "backoff", "sleep"}
    /\ subPc' = "ended"
    /\ subEnd' = "timeout"
    /\ conn' = "free"
    /\ UNCHANGED <<orchPc, srvPc, pubVars, subConnected, msgCount, lastMsg,
                   attempts, executions, samplerVars, db>>
    /\ UNCHANGED nonStoreCallVars

\* start_server, select! arm of classifer_task: unbind, then wait for the
\* subscriber's socket mutex.
SrvSelectPub ==
    /\ srvPc = "running"
    /\ pubPc = "ended"
    /\ pubBound' = FALSE
    /\ srvPc' = "unbound"
    /\ UNCHANGED <<orchPc, pubPc, pubEnd, queue, dispatched, subVars, samplerVars, db>>
    /\ UNCHANGED nonPipelineVars

\* start_server, arm of classifer_task once the subscriber's mutex is free:
\* disconnect, abort the sampler, return.
SrvFinishPub ==
    /\ srvPc = "unbound"
    /\ subPc \in {"connect", "ended"}
    /\ subConnected' = FALSE
    /\ samplerPc' = AbortSampler
    /\ srvPc' = "returned"
    /\ UNCHANGED <<orchPc, pubVars, subPc, subEnd, msgCount, lastMsg, attempts,
                   executions, gate, samples, db>>
    /\ UNCHANGED nonPipelineVars

\* start_server, select! arm of recv_classifier_task.
SrvSelectSub ==
    /\ srvPc = "running"
    /\ subPc = "ended"
    /\ pubBound' = FALSE
    /\ subConnected' = FALSE
    /\ samplerPc' = AbortSampler
    /\ srvPc' = "returned"
    /\ UNCHANGED <<orchPc, pubPc, pubEnd, queue, dispatched, subPc, subEnd, msgCount,
                   lastMsg, attempts, executions, gate, samples, db>>
    /\ UNCHANGED nonPipelineVars

InitPipeline == InitCommon /\ db \in PipelineStores

NextPipeline ==
    \/ OrchSpawnServer
    \/ PubInit
    \/ PubIter
    \/ PubTimeout
    \/ SamplerTick
    \/ SubConnect
    \/ SubRecv
    \/ SubUpdateAttempt
    \/ SubBackoff
    \/ SubSleep
    \/ SubTimeout
    \/ SrvSelectPub
    \/ SrvFinishPub
    \/ SrvSelectSub

SpecPipeline == InitPipeline /\ [][NextPipeline]_vars

\* -------------------------------- the writer next to update_classification
\* What the classifier agent can answer for an app.
ClassifierAnswers ==
    {Decode(m).data : m \in {x \in Incoming : x.kind = "classified"}}

ClassifySnapshots == {SnapOne, SnapTwoApps}
ClassifyIdle == {5}

\* DbHandler::update_classification succeeding, called by the subscriber while
\* the tracker service runs; the connection mutex makes the UPDATE one step
\* between two uses of the connection by the writer.
StoreUpdateClassification ==
    /\ wPc # "session"
    /\ \E data \in ClassifierAnswers : db' = UpdateClassificationRow(db, data)
    /\ UNCHANGED <<trackerVars, ctrl_c, chanVars, writerVars, pipeVars, app_config, lastCall, conn, manager>>

NextClassify ==
    \/ TrackTick(ClassifySnapshots, ClassifyIdle, ServiceSteps, ServiceSkews)
    \/ TrackShutdown
    \/ SignalCtrlC
    \/ WriterSession
    \/ WriterRecv
    \/ WriterProcess
    \/ StoreUpdateClassification

SpecClassify == Init /\ [][NextClassify]_vars

\* The runtime polls every spawned task that is ready, and an armed timer fires.
PipelineFairness ==
    /\ WF_vars(OrchSpawnServer)
    /\ WF_vars(SrvSelectPub \/ SrvFinishPub \/ SrvSelectSub)
    /\ WF_vars(PubInit \/ PubIter \/ PubTimeout)
    /\ WF_vars(SubConnect \/ SubUpdateAttempt \/ SubBackoff \/ SubSleep \/ SubTimeout)
    /\ WF_vars(SamplerTick)

SpecPipelineLive == InitPipeline /\ [][NextPipeline]_vars /\ PipelineFairness

\* ------------------------- the writer beside the subscriber's store updates
\* The tracking loop and the writer of the tracker service, and the
\* subscriber of the classification service, on the one DbHandler main2
\* hands to both.
WriterProcessObserved == WriterApply(TRUE)

InitContention == InitCommon /\ db = SeededStore

ContentionSnapshots == {SnapOne}
ContentionIdle == {5}

NextContention ==
    \/ TrackTick(ContentionSnapshots, ContentionIdle, ServiceSteps, ServiceSkews)
    \/ WriterSession
    \/ WriterRecv
    \/ WriterProcessObserved
    \/ OrchSpawnServer
    \/ SubConnect
    \/ SubRecv
    \/ SubUpdateAttempt
    \/ SubBackoff
    \/ SubSleep

SpecContention == InitContention /\ [][NextContention]_vars

\* ------------------------------------- the service with one item to classify
\* A store whose only app is unclassified.
OneUnclassifiedStore ==
    [EmptyStore EXCEPT
        !.apps = [n \in {"a1"} |-> "p1"],
        !.app_classifications = [n \in {"a1"} |-> None]]

InitDispatch == InitCommon /\ db = OneUnclassifiedStore

SpecDispatch == InitDispatch /\ [][NextPipeline]_vars

\* ------------------------------- the configuration and the admission sampler
\* watcher: the file changed, open_or_create_file reads it and the result
\* replaces APP_CONFIG.
WatcherReload(inputs) ==
    /\ \E map \in inputs :
         /\ app_config' = open_or_create_file(map)
         /\ lastCall' = Call("from_str", map, visit_map(map))
    /\ UNCHANGED <<trackerVars, ctrl_c, chanVars, writerVars, db, pipeVars, conn, manager>>

\* The object of test_clamping_behavior, and the defaults with a short idle
\* threshold.
ClampingTestMap ==
    [cpu_threshold |-> 0, gpu_threshold |-> 150, ram_usage |-> -10, gpu_ram |-> 101,
     timeout |-> 100, db_update_interval |-> 1000, idle_threshold_period |-> 5]
ShortIdleMap == [AppConfigDefault EXCEPT !.idle_threshold_period = 5]
SamplerConfigInputs == {ClampingTestMap, ShortIdleMap}

SamplerSample == SamplerIter(TRUE, SamplerIdle, CpuSamples, RamSamples, GpuSamples)

NextSampler ==
    \/ OrchSpawnServer
    \/ PubInit
    \/ PubIter
    \/ SamplerSample
    \/ WatcherReload(SamplerConfigInputs)

SpecSampler == InitPipeline /\ [][NextSampler]_vars

\* The numbers a configuration file may give for each key: below the type,
\* around both bounds of the range, and inside it.
IntProbes ==
    [timeout |-> {-1, 0, 899, 900, 1800, 21600, 21601},
     db_update_interval |-> {-1, 0, 1, 300, 900, 901},
     idle_threshold_period |-> {-1, 29, 30, 600, 3600, 3601}]
PercentProbes == {-10, 0, 1, 50, 100, 101}

Without(map, key) == [k \in DOMAIN map \ {key} |-> map[k]]

ConfigMap(p, q, t, u, i) ==
    [cpu_threshold |-> p, gpu_threshold |-> q, ram_usage |-> q, gpu_ram |-> p,
     timeout |-> t, db_update_interval |-> u, idle_threshold_period |-> i]

\* Every combination of the integers beside in-range percentages, and every
\* combination of the percentages beside in-range integers.
CompleteInputs ==
    {ConfigMap(50, 50, t, u, i) :
        t \in IntProbes.timeout, u \in IntProbes.db_update_interval,
        i \in IntProbes.idle_threshold_period}
    \cup {ConfigMap(p, q, t, 300, 600) :
            p \in PercentProbes, q \in PercentProbes, t \in {1800, 21601}}

ConfigInputs ==
    CompleteInputs \cup {Without(ClampingTestMap, key) : key \in ConfigFields}

NextConfig == WatcherReload(ConfigInputs)

SpecConfig == InitTracker /\ [][NextConfig]_vars

\* ------------------------------------------------ the tick loop on its own
MaxLoopTicks == 3
MaxLoopTime == 3
LoopSnapshots == {SnapOne, SnapTwoApps}
LoopIdle == {5, 45, 90}
LoopSteps == {1}
LoopSkews == {0}

LoopTick ==
    TickArm(TRUE, LoopSnapshots, LoopIdle, LoopSteps, LoopSkews, MaxLoopTicks, MaxLoopTime)

NextLoop == LoopTick

SpecLoop == InitTracker /\ [][NextLoop]_vars

\* ------------------------------- the AppTracker and the batches it hands out
FeedSnapshots == {SnapOne, SnapTwoApps, SnapAnon, SnapOther}
FeedSteps == {1}
FeedSkews == {0}
ResetIdleSamples == {5, 30, 45}

\* AppTracker::update followed by the send of get_state(), as the tick arm of
\* track_application_usage does after every update.
FeedUpdate ==
    /\ ticks < MaxUpdates
    /\ \E window_state \in FeedSnapshots, step \in FeedSteps, skew \in FeedSkews,
          idle1 \in TrackerIdle :
        \E idle2 \in IdleNext(idle1, TrackerIdle) :
          LET current_time == now + step
              start_time == current_time + skew
              idle == [t \in Titles |-> IF t = TitleOrder[1] THEN idle1 ELSE idle2]
              s == update(WithIds(tracker, nextId), window_state,
                          current_time, start_time, idle)
          IN  /\ tracker' = s.t
              /\ nextId' = s.id
              /\ now' = start_time
              /\ last_window_state' = [some |-> TRUE, value |-> window_state]
              /\ chan' = Send(chan, get_state(s.t), sentCount + 1)
              /\ lastCall' = Call("update",
                                  [window_state |-> window_state, idle |-> idle],
                                  None)
    /\ sentCount' = sentCount + 1
    /\ ticks' = ticks + 1
    /\ UNCHANGED <<state_tracker, trackPc, ctrl_c, finalSeq, writerVars, db, pipeVars, app_config, conn, manager>>

\* AppTracker::reset_idle_map; the call's result slot keeps the number of
\* idle periods the tracker held when it was called.
FeedResetIdle ==
    /\ \E idle_time_secs \in ResetIdleSamples :
         /\ tracker' = reset_idle_map(tracker, idle_time_secs)
         /\ lastCall' = Call("reset_idle_map", idle_time_secs,
                             Cardinality(DOMAIN tracker.previous_idle_map))
    /\ UNCHANGED <<nextId, state_tracker, last_window_state, now, ticks, trackPc,
                   ctrl_c, chanVars, writerVars, db, pipeVars, app_config, conn, manager>>

NextFeed == FeedUpdate \/ FeedResetIdle

SpecFeed == InitTracker /\ [][NextFeed]_vars

\* ------------------------------------------- queries and administration
\* The calendar day of a time (seconds since the start of day 0).
SecondsPerHour == 3600
DateOf(t) == t \div (24 * SecondsPerHour)

\* n / d rounded to the nearest integer, halves away from zero (d > 0):
\* SQLite's ROUND on a value scaled to the digits kept.
RoundDiv(n, d) ==
    IF n >= 0 THEN (2 * n + d) \div (2 * d)
    ELSE -((2 * (-n) + d) \div (2 * d))

RECURSIVE SumOver(_, _)
SumOver(S, m) ==
    IF S = {} THEN 0
    ELSE LET x == CHOOSE y \in S : TRUE IN m[x] + SumOver(S \ {x}, m)

\* The rows of a table whose start_time falls in the date range, per app.
RowsInRange(table, app_name, previous_date, current_date) ==
    {k \in DOMAIN table :
        /\ table[k].app_name = app_name
        /\ DateOf(table[k].start_time) >= previous_date
        /\ DateOf(table[k].start_time) <= current_date}

\* SUM(strftime('%s', end_time) - strftime('%s', start_time)) over those rows
SecondsInRange(table, app_name, previous_date, current_date) ==
    SumOver(RowsInRange(table, app_name, previous_date, current_date),
            [k \in DOMAIN table |-> table[k].end_time - table[k].start_time])

\* Option<T> as the row mapping produces it: NULL is None.
Some(v) == [some |-> TRUE, value |-> v]
NoNumber == [some |-> FALSE, value |-> 0]
NoFlag == [some |-> FALSE, value |-> FALSE]

\* The ActivePercentage column is in hundredths of a percent.
\* An ActivePercentage that reports 0 for an app without tracked time.
ActivePercentageZero(total_seconds, idle_seconds) ==
    IF total_seconds > 0
    THEN Some(RoundDiv((total_seconds - idle_seconds) * 10000, total_seconds))
    ELSE Some(0)

\* CASE WHEN t.total_seconds > 0 THEN ROUND((t.total_seconds -
\* COALESCE(i.idle_seconds, 0)) * 100.0 / t.total_seconds, 2) ELSE NULL END
ActivePercentage(total_seconds, idle_seconds) ==
    IF total_seconds > 0
    THEN Some(RoundDiv((total_seconds - idle_seconds) * 10000, total_seconds))
    ELSE NoNumber

\* A stored integer read as Option<bool>
AsBool(v) == v # 0
\* A bool bound as a statement parameter
AsInteger(b) == IF b THEN 1 ELSE 0

\* One row of APP_USAGE_QUERY as get_app_usage_details maps it to
\* AppUsageQuery; hours are in hundredths.
AppUsageQuery(d, app_name, previous_date, current_date) ==
    LET total_seconds == SecondsInRange(d.app_usage_time_period, app_name,
                                        previous_date, current_date)
        idle_seconds == SecondsInRange(d.app_idle_time_period, app_name,
                                       previous_date, current_date)
        limited == app_name \in DOMAIN d.daily_limits
        dl == d.daily_limits[app_name]
    IN  [app_name           |-> app_name,
         total_hours        |-> RoundDiv(total_seconds * 100, SecondsPerHour),
         idle_hours         |-> RoundDiv(idle_seconds * 100, SecondsPerHour),
         active_percentage  |-> ActivePercentage(total_seconds, idle_seconds),
         time_limit         |-> IF limited THEN Some(dl.time_limit) ELSE NoNumber,
         should_alert       |-> IF limited THEN Some(AsBool(dl.should_alert)) ELSE NoFlag,
         should_close       |-> IF limited THEN Some(AsBool(dl.should_close)) ELSE NoFlag,
         alert_before_close |-> IF limited THEN Some(AsBool(dl.alert_before_close))
                                ELSE NoFlag,
         alert_duration     |-> IF limited THEN Some(dl.alert_duration) ELSE NoNumber]

\* DbHandler::get_app_usage_details: one row per app with an interval in the
\* date range, ordered by TotalHours descending.
get_app_usage_details(d, previous_date, current_date) ==
    LET names == {d.app_usage_time_period[k].app_name :
                     k \in {i \in DOMAIN d.app_usage_time_period :
                              /\ DateOf(d.app_usage_time_period[i].start_time) >= previous_date
                              /\ DateOf(d.app_usage_time_period[i].start_time) <= current_date}}
        rows == SetToSeq({AppUsageQuery(d, n, previous_date, current_date) : n \in names})
    IN  SortSeq(rows, LAMBDA x, y : x.total_hours > y.total_hours)

\* DbHandler::insert_update_app_limits
insert_update_app_limits(d, app_name, time_limit, should_alert, should_close, alert_before_close, alert_duration) ==
    [d EXCEPT !.daily_limits =
        Put(@, app_name,
            [time_limit         |-> time_limit,
             should_alert       |-> AsInteger(should_alert),
             should_close       |-> AsInteger(should_close),
             alert_before_close |-> AsInteger(alert_before_close),
             alert_duration     |-> alert_duration])]

\* A set_daily_limit that lets the conflicting flags through to the store.
ConflictingFlagsNever(should_alert, should_close) == FALSE

\* set_daily_limit: the arm (true, true) of its match
ConflictingFlags(should_alert, should_close) == should_alert /\ should_close

\* A set_daily_limit that stores the flags as they come.
set_daily_limit_unchecked(d, app_name, total_minutes, should_alert, should_close, alert_before_close, alert_duration) ==
    [db |-> insert_update_app_limits(d, app_name, total_minutes, should_alert,
                                     should_close, alert_before_close, alert_duration),
     result |-> "Ok", writes |-> 1]

\* set_daily_limit: the store afterwards, the result, and the upserts made.
set_daily_limit(d, app_name, total_minutes, should_alert, should_close, alert_before_close, alert_duration) ==
    IF ConflictingFlags(should_alert, should_close)
    THEN [db |-> d, result |-> "OptionError", writes |-> 0]
    ELSE IF should_alert
    THEN [db |-> insert_update_app_limits(d, app_name, total_minutes, should_alert,
                                          FALSE, FALSE, alert_duration),
          result |-> "Ok", writes |-> 1]
    ELSE IF should_close
    THEN [db |-> insert_update_app_limits(d, app_name, total_minutes, FALSE,
                                          should_close, alert_before_close,
                                          alert_duration),
          result |-> "Ok", writes |-> 1]
    ELSE [db |-> insert_update_app_limits(d, app_name, total_minutes, should_alert,
                                          FALSE, alert_before_close, alert_duration),
          result |-> "Ok", writes |-> 1]

\* Stores the tracker service leaves behind: a first tick with two apps, and
\* two more ticks with one of them, idle in the last two.
IdleAll(v) == [t \in Titles |-> v]
FeedOne == update(WithIds(NewTracker, 1), SnapTwoApps, 0, 0, IdleAll(5))
FeedTwo == update(FeedOne, SnapOne, 2, 2, IdleAll(45))
FeedThree == update(FeedTwo, SnapOne, 3, 3, IdleAll(45))
StoreFirstTick ==
    process_updates(update_session(EmptyStore, SessionId, FALSE), get_state(FeedOne.t), 0).db
StoreThreeTicks ==
    process_updates(process_updates(StoreFirstTick, get_state(FeedTwo.t), 0).db,
                    get_state(FeedThree.t), 0).db
FrontendStores == {StoreFirstTick, StoreThreeTicks}

LimitApps == {"a1", "a3"}
LimitMinutes == {30}
LimitAlertDurations == {120}
QueryDates == {0, 1}
FrontendAnswers == ClassifierAnswers \cup {[name |-> "a1", classification |-> Unclassified]}

\* the command set_daily_limit, its arguments drawn from the sets given; with
\* `record` the call is also kept in lastCall
SetDailyLimitCommand(record, apps, minutes, durations) ==
    /\ \E app_name \in apps, total_minutes \in minutes,
          should_alert \in BOOLEAN, should_close \in BOOLEAN,
          alert_before_close \in BOOLEAN, alert_duration \in durations :
         LET r == set_daily_limit(db, app_name, total_minutes, should_alert,
                                  should_close, alert_before_close, alert_duration)
         IN  /\ db' = r.db
             /\ lastCall' = IF record
                            THEN Call("set_daily_limit",
                                      [app_name |-> app_name,
                                       total_minutes |-> total_minutes,
                                       should_alert |-> should_alert,
                                       should_close |-> should_close,
                                       alert_before_close |-> alert_before_close,
                                       alert_duration |-> alert_duration],
                                      [result |-> r.result, writes |-> r.writes])
                            ELSE lastCall
    /\ UNCHANGED <<trackerVars, ctrl_c, chanVars, writerVars, pipeVars, app_config, conn, manager>>

FrontSetDailyLimit == SetDailyLimitCommand(TRUE, LimitApps, LimitMinutes, LimitAlertDurations)

\* DbHandler::get_app_usage_details called for a date range
FrontGetAppUsageDetails ==
    /\ \E previous_date \in QueryDates, current_date \in QueryDates :
         lastCall' = Call("get_app_usage_details",
                          [previous_date |-> previous_date, current_date |-> current_date],
                          get_app_usage_details(db, previous_date, current_date))
    /\ UNCHANGED <<trackerVars, ctrl_c, chanVars, writerVars, pipeVars, app_config, db, conn, manager>>

\* DbHandler::fetch_all_classification called by the publisher
FrontFetchAllClassification ==
    /\ lastCall' = Call("fetch_all_classification", None,
                        fetch_all_classification(db, FALSE))
    /\ UNCHANGED <<trackerVars, ctrl_c, chanVars, writerVars, pipeVars, app_config, db, conn, manager>>

\* DbHandler::update_classification succeeding with an answer of the agent
FrontUpdateClassification ==
    /\ \E data \in FrontendAnswers :
         /\ db' = UpdateClassificationRow(db, data)
         /\ lastCall' = Call("update_classification", data, "Ok")
    /\ UNCHANGED <<trackerVars, ctrl_c, chanVars, writerVars, pipeVars, app_config, conn, manager>>

InitFrontend == InitCommon /\ db \in FrontendStores

NextFrontend ==
    \/ FrontSetDailyLimit
    \/ FrontGetAppUsageDetails
    \/ FrontFetchAllClassification
    \/ FrontUpdateClassification

SpecFrontend == InitFrontend /\ [][NextFrontend]_vars

\* ===================================================================== claims

\* Every row of batch b is in store d with the values the batch carries in
\* the columns its upserts write.
BatchVisible(d, b) ==
    /\ \A k \in DOMAIN b.apps :
         /\ b.apps[k].name \in DOMAIN d.apps
         /\ d.apps[b.apps[k].name] = b.apps[k].path
         /\ b.apps[k].name \in DOMAIN d.daily_limits
    /\ \A k \in DOMAIN b.app_usages :
         /\ b.app_usages[k].id \in DOMAIN d.app_usage_time_period
         /\ d.app_usage_time_period[b.app_usages[k].id].end_time =
                b.app_usages[k].end_time
    /\ \A k \in DOMAIN b.window_usages :
         /\ b.window_usages[k].app_id \in DOMAIN d.window_activity_usage
         /\ d.window_activity_usage[b.window_usages[k].app_id].last_updated_time =
                b.window_usages[k].last_updated_time
    /\ \A a \in b.classifications : a \in DOMAIN d.app_classifications
    /\ \A k \in DOMAIN b.idle_periods :
         /\ b.idle_periods[k].id \in DOMAIN d.app_idle_time_period
         /\ d.app_idle_time_period[b.idle_periods[k].id].end_time =
                b.idle_periods[k].end_time

\* C1: process_updates is atomic. A call that fails (at any statement or at
\* the commit) returns the error and leaves the store exactly as it was; a
\* call that succeeds leaves the whole batch in the store. The store a reader
\* finds between two calls therefore never holds part of a batch.
C1_AtomicBatch ==
    [][appliedCount' # appliedCount =>
          /\ lastResult' \in {"ok", "err"}
          /\ lastResult' = "err" => db' = db
          /\ lastResult' = "ok" => BatchVisible(db', wBatch.data)]_vars

C1_Witness ==
    /\ lastResult = "err"
    /\ appliedCount >= 2
    /\ DOMAIN wBatch.data.app_usages # {}
    /\ ~BatchVisible(db, wBatch.data)

\* C2: applying a batch twice in a row leaves every table as applying it once
\* does, for every store the writer meets and every batch it is handed.
C2_IdempotentBatch ==
    wPc = "process" =>
        LET once == process_updates(db, wBatch.data, 0).db
            twice == process_updates(once, wBatch.data, 0).db
        IN  twice = once

\* the batch at hand extends an interval the store already holds
C2_Witness ==
    /\ wPc = "process"
    /\ \E k \in DOMAIN wBatch.data.app_usages :
         LET u == wBatch.data.app_usages[k]
         IN  /\ u.id \in DOMAIN db.app_usage_time_period
             /\ db.app_usage_time_period[u.id].end_time # u.end_time
    /\ \E k \in DOMAIN wBatch.data.apps :
         /\ k \in DOMAIN db.app_classifications
         /\ db.app_classifications[k] # None

\* The AppUsage intervals the tracker holds for app name a.
IntervalsOf(a) ==
    {k \in DOMAIN tracker.previous_app_usage_map :
        tracker.previous_app_usage_map[k].app_name = a}

\* C3: the tracker holds at most one AppUsage interval per app name, and
\* exactly one for every app name that owns a window of the latest snapshot
\* and is a key of that snapshot's app-name map.
C3_OneIntervalPerApp ==
    /\ \A k \in DOMAIN tracker.previous_app_usage_map :
         Cardinality(IntervalsOf(tracker.previous_app_usage_map[k].app_name)) <= 1
    /\ last_window_state.some =>
         \A t \in DOMAIN last_window_state.value.win :
            LET a == last_window_state.value.win[t].app_name
            IN  (a # None /\ a \in last_window_state.value.apps)
                    => Cardinality(IntervalsOf(a)) = 1

\* two windows of one app in the latest snapshot, after an earlier update
C3_Witness ==
    /\ ticks >= 2
    /\ last_window_state.some
    /\ last_window_state.value = SnapTwoSameApp
    /\ Cardinality(IntervalsOf("a1")) = 1
    /\ tracker.previous_app_usage_map["a1"].end_time >
           tracker.previous_app_usage_map["a1"].start_time

\* C4: the writer applies the batches in the order they were sent: the batch
\* process_updates is started on is always the one sent right after the last
\* batch that was committed or rolled back.
C4_InOrderApply ==
    wPc = "process" => wBatch.seq = appliedCount + 1

C4_Witness ==
    /\ wPc = "process"
    /\ wBatch.seq = 2
    /\ appliedCount = 1
    /\ Len(chan) >= 1

\* C5: once the tracking task has taken the shutdown signal it has sent its
\* current get_state() as the last batch and has left its loop; the writer
\* ends only with the channel empty and every sent batch, that last one
\* included, handed to process_updates.
C5_ShutdownDrains ==
    /\ ctrl_c = "received" =>
         /\ trackPc = "done"
         /\ finalSeq > 0
         /\ finalSeq = sentCount
    /\ \A i \in DOMAIN chan :
         chan[i].seq = finalSeq => chan[i].data = get_state(tracker)
    /\ wPc = "done" =>
         /\ trackPc = "done"
         /\ chan = << >>
         /\ appliedCount = sentCount
         /\ wBatch.seq = finalSeq

C5_Witness ==
    /\ wPc = "done"
    /\ appliedCount = 3
    /\ wBatch.seq = finalSeq
    /\ DOMAIN wBatch.data.window_usages # {}

\* C6: the publisher dispatches a work item only in an iteration that received
\* true from the admission control channel; an iteration that received false
\* or found the channel closed dispatches nothing, and one received true
\* dispatches at most one item.
C6_DispatchOnlyOnTrue ==
    [][dispatched' # dispatched =>
          /\ gate # << >>
          /\ Head(gate) = TRUE
          /\ Len(dispatched') = Len(dispatched) + 1
          /\ SubSeq(dispatched', 1, Len(dispatched)) = dispatched
          /\ dispatched'[Len(dispatched')] = Head(queue).name]_vars

\* Two values were received, one of them permitted a dispatch.
C6_Witness ==
    /\ Len(dispatched) = 1
    /\ samples = 2
    /\ gate = << >>
    /\ pubPc = "loop"

UndecodableKinds == {"not_utf8", "not_json", "missing_field"}

\* C7: a message that is malformed or cannot be decoded is dropped: the store
\* is unchanged and the subscriber keeps running (it goes on to its next
\* iteration).
C7_MalformedDropped ==
    [][(subPc = "recv" /\ msgCount' # msgCount /\ lastMsg'.kind \in UndecodableKinds)
          => (subPc' = "sleep" /\ db' = db)]_vars

\* C8, as stated: update_classification executes the UPDATE at most 5 times.
C8_AtMostFiveExecutions == executions <= 5

\* C8: under lock contention update_classification executes the UPDATE at most
\* MAX_RETRIES + 1 times (one first attempt and MAX_RETRIES retries), each
\* retry following one failed execution, and after the last one it returns
\* the error instead of retrying.
C8_BoundedRetries ==
    /\ executions <= MAX_RETRIES + 1
    /\ attempts <= MAX_RETRIES
    /\ subPc \in {"update", "backoff"} => executions = attempts
    /\ executions = MAX_RETRIES + 1 => subPc \in {"sleep", "recv", "ended"}

\* Every execution met the lock; the last one returned the error.
C8_Witness ==
    /\ executions = MAX_RETRIES + 1
    /\ attempts = MAX_RETRIES
    /\ subPc = "ended"
    /\ subEnd = "error"

\* C9: once start_server has returned, the sockets are unbound and
\* disconnected and neither the publisher nor the subscriber is still running.
C9_NoTaskOutlivesServer ==
    srvPc = "returned" =>
        /\ ~pubBound
        /\ ~subConnected
        /\ pubPc = "ended"
        /\ subPc = "ended"

\* C10: a pipeline that has terminated is eventually followed by a new
\* running pipeline.
C10_PipelineRestarted == (srvPc = "returned") ~> (srvPc = "running")

\* C11: a classification placeholder never overwrites a result. In every step
\* in which process_updates is run on a batch, each app_classifications row
\* that held a non-null value before still holds that value afterwards,
\* whatever update_classification calls were interleaved with the batches and
\* although the batches keep carrying the app's name.
C11_PlaceholderKeepsResult ==
    [][appliedCount' # appliedCount =>
          \A n \in DOMAIN db.app_classifications :
             db.app_classifications[n] # None =>
                /\ n \in DOMAIN db'.app_classifications
                /\ db'.app_classifications[n] = db.app_classifications[n]]_vars

\* A second batch naming both apps was applied over a result of an earlier
\* run and a result written after the first batch.
C11_Witness ==
    /\ wPc = "recv"
    /\ lastResult = "ok"
    /\ appliedCount >= 2
    /\ {"a1", "a2"} \subseteq wBatch.data.classifications
    /\ {"a1", "a2"} \subseteq DOMAIN db.app_classifications
    /\ db.app_classifications["a1"] = "Work"
    /\ db.app_classifications["a2"] = "Game"

\* The names of the apps a fetch_all_classification result holds.
FetchedNames(r) == {r.rows[i].name : i \in DOMAIN r.rows}

\* C12, as stated: an app whose classification row holds any non-null value
\* is not returned by fetch_all_classification.
C12_NonNullNotFetched ==
    lastCall.op = "fetch_all_classification" =>
        \A n \in DOMAIN db.app_classifications :
           db.app_classifications[n] # None => n \notin FetchedNames(lastCall.result)

\* C12: classification round trip. An app whose placeholder was inserted with
\* NULL and then updated by update_classification to a value that is neither
\* NULL nor the sentinel "Unclassified" is not returned by a later
\* fetch_all_classification; the apps still NULL or "Unclassified" are.
C12_ClassifiedNotFetched ==
    lastCall.op = "fetch_all_classification" =>
        /\ lastCall.result.ok
        /\ \A n \in DOMAIN db.app_classifications :
              n \in FetchedNames(lastCall.result)
                 <=> db.app_classifications[n] \in {None, Unclassified}

\* a1 was classified, a2 is still a placeholder, and the fetch returned a2 alone
C12_Witness ==
    /\ lastCall.op = "fetch_all_classification"
    /\ "a1" \in DOMAIN db.app_classifications
    /\ db.app_classifications["a1"] = "Game"
    /\ FetchedNames(lastCall.result) = {"a2"}

\* C13: after update_classification has set an app's classification to a
\* non-null value v, the row get_app_usage_details returns for that app
\* carries v as its classification.
C13_AggregationCarriesClassification ==
    lastCall.op = "get_app_usage_details" =>
        \A i \in DOMAIN lastCall.result :
           LET row == lastCall.result[i]
               n == row.app_name
           IN  (n \in DOMAIN db.app_classifications /\ db.app_classifications[n] # None)
                  => /\ "classification" \in DOMAIN row
                     /\ row["classification"] = db.app_classifications[n]

\* C19: set_daily_limit with should_alert and should_close both true returns
\* the conflicting-configuration error and writes nothing: daily_limits is
\* unchanged. With every other combination of the two flags it performs one
\* upsert, of that app's row alone, and the stored flags are never both set.
C19_ConflictingLimitRejected ==
    [][lastCall'.op = "set_daily_limit" =>
          LET a == lastCall'.args
              r == lastCall'.result
          IN  IF a.should_alert /\ a.should_close
              THEN /\ r.result = "OptionError"
                   /\ r.writes = 0
                   /\ db' = db
              ELSE /\ r.result = "Ok"
                   /\ r.writes = 1
                   /\ DOMAIN db'.daily_limits = DOMAIN db.daily_limits \cup {a.app_name}
                   /\ \A n \in DOMAIN db.daily_limits \ {a.app_name} :
                         db'.daily_limits[n] = db.daily_limits[n]
                   /\ db'.daily_limits[a.app_name].time_limit = a.total_minutes
                   /\ db'.daily_limits[a.app_name].alert_duration = a.alert_duration
                   /\ db'.daily_limits[a.app_name].should_alert = AsInteger(a.should_alert)
                   /\ db'.daily_limits[a.app_name].should_close = AsInteger(a.should_close)
                   /\ [db' EXCEPT !.daily_limits = db.daily_limits] = db]_vars

\* The conflicting call was rejected after an accepted one had stored a row.
C19_Witness ==
    /\ lastCall.op = "set_daily_limit"
    /\ lastCall.args.should_alert
    /\ lastCall.args.should_close
    /\ lastCall.args.app_name = "a3"
    /\ lastCall.result.result = "OptionError"
    /\ "a3" \in DOMAIN db.daily_limits
    /\ db.daily_limits["a3"].should_close = 1

\* The seconds the aggregation sums for the app of a result row.
TotalSecondsOf(row) ==
    SecondsInRange(db.app_usage_time_period, row.app_name,
                   lastCall.args.previous_date, lastCall.args.current_date)
IdleSecondsOf(row) ==
    SecondsInRange(db.app_idle_time_period, row.app_name,
                   lastCall.args.previous_date, lastCall.args.current_date)

\* C20, as stated: active_percentage is NULL for a total of 0 and is
\* (total - idle) * 100 / total for a total above 0.
C20_ExactPercentage ==
    lastCall.op = "get_app_usage_details" =>
        \A i \in DOMAIN lastCall.result :
           LET row == lastCall.result[i]
               total == TotalSecondsOf(row)
               idle == IdleSecondsOf(row)
           IN  /\ total = 0 => ~row.active_percentage.some
               /\ total > 0 =>
                     /\ row.active_percentage.some
                     /\ row.active_percentage.value * total = (total - idle) * 10000

\* C20: the usage aggregation never divides by zero. The query succeeds with
\* a row for every app that has an interval in the range; for a total of 0
\* seconds the row's active_percentage is NULL, for a total above 0 it is
\* (total - idle) * 100 / total rounded to two decimals.
C20_GuardedPercentage ==
    lastCall.op = "get_app_usage_details" =>
        /\ \A k \in DOMAIN db.app_usage_time_period :
              (/\ DateOf(db.app_usage_time_period[k].start_time)
                     >= lastCall.args.previous_date
               /\ DateOf(db.app_usage_time_period[k].start_time)
                     <= lastCall.args.current_date)
                 => \E i \in DOMAIN lastCall.result :
                       lastCall.result[i].app_name = db.app_usage_time_period[k].app_name
        /\ \A i \in DOMAIN lastCall.result :
              LET row == lastCall.result[i]
                  total == TotalSecondsOf(row)
                  idle == IdleSecondsOf(row)
                  hundredths == row.active_percentage.value
              IN  /\ total = 0 => ~row.active_percentage.some
                  /\ total > 0 =>
                        /\ row.active_percentage.some
                        /\ 2 * (hundredths * total - (total - idle) * 10000) <= total
                        /\ 2 * ((total - idle) * 10000 - hundredths * total) <= total

\* One row with a total of 0 and one with a total above 0 in the same result.
C20_Witness ==
    /\ lastCall.op = "get_app_usage_details"
    /\ \E i, j \in DOMAIN lastCall.result :
          /\ TotalSecondsOf(lastCall.result[i]) = 0
          /\ ~lastCall.result[i].active_percentage.some
          /\ TotalSecondsOf(lastCall.result[j]) = 3
          /\ IdleSecondsOf(lastCall.result[j]) = 1
          /\ lastCall.result[j].active_percentage = Some(6667)

\* The ids of the AppUsage intervals of a batch.
AppUsageIds(b) == {b.app_usages[k].id : k \in DOMAIN b.app_usages}

\* The store after the first n batches of a log were applied in order.
RECURSIVE ApplyInOrder(_, _, _)
ApplyInOrder(d, log, n) ==
    IF n = 0 THEN d
    ELSE process_updates(ApplyInOrder(d, log, n - 1), log[n].data, 0).db

IdleOrdered(m) == \A k \in DOMAIN m : m[k].end_time >= m[k].start_time

\* C15: with a clock that never goes back, every IdlePeriod the tracker
\* holds, every one in a batch under way and every app_idle_time_period row
\* has end_time >= start_time, after any sequence of updates, reset_idle_map
\* calls and batch applications.
C15_IdleEndsAfterStart ==
    /\ IdleOrdered(tracker.previous_idle_map)
    /\ \A i \in DOMAIN chan : IdleOrdered(chan[i].data.idle_periods)
    /\ IdleOrdered(wBatch.data.idle_periods)
    /\ IdleOrdered(db.app_idle_time_period)

\* An idle period was stored, extended by a later batch, and is still held.
C15_Witness ==
    /\ appliedCount >= 2
    /\ \E k \in DOMAIN tracker.previous_idle_map :
          LET p == tracker.previous_idle_map[k]
          IN  /\ p.id \in DOMAIN db.app_idle_time_period
              /\ db.app_idle_time_period[p.id].end_time
                    > db.app_idle_time_period[p.id].start_time
              /\ db.app_idle_time_period[p.id].end_time = p.end_time

\* C16: after the first update, which observes window w1 of app a1, the
\* tracker exposes one AppUsage for a1 and one WindowUsage for w1, each with
\* its start time equal to its end time.
C16_FirstTickEqualTimes ==
    (ticks = 1 /\ last_window_state.some /\ last_window_state.value = SnapOne) =>
        LET st == get_state(tracker)
        IN  /\ DOMAIN st.app_usages = {"a1"}
            /\ DOMAIN st.window_usages = {"w1"}
            /\ st.app_usages["a1"].start_time = st.app_usages["a1"].end_time
            /\ st.window_usages["w1"].start_time
                  = st.window_usages["w1"].last_updated_time

\* C17: after an update, every window of the snapshot whose idle reading
\* exceeded the threshold (45 s against 30 s) has an IdlePeriod in the
\* tracker, recorded for that window, and no two IdlePeriods belong to the
\* same window.
C17_IdlePeriodPerWindow ==
    [][lastCall'.op = "update" /\ ticks' # ticks =>
          LET a == lastCall'.args
              idle_map == tracker'.previous_idle_map
              windows == tracker'.previous_window_usage_map
          IN  /\ \A t \in DOMAIN a.window_state.win :
                    a.idle[t] > IDLE_THRESHOLD_SECS =>
                       /\ t \in DOMAIN idle_map
                       /\ idle_map[t].window_id = windows[t].app_id
              /\ \A k1, k2 \in DOMAIN idle_map :
                    idle_map[k1].window_id = idle_map[k2].window_id => k1 = k2]_vars

\* Both windows of the snapshot were read idle for 45 s.
C17_Witness ==
    /\ lastCall.op = "update"
    /\ lastCall.args.window_state = SnapTwoApps
    /\ \A t \in Titles : lastCall.args.idle[t] = 45
    /\ DOMAIN tracker.previous_idle_map = {"w1", "w2"}

\* C18: reset_idle_map empties the idle map when the idle duration it reads
\* is below the threshold and the map is not empty, and changes nothing else;
\* with the duration at or above the threshold, or the map empty, it leaves
\* the whole tracker as it was.
C18_ResetIdleFrame ==
    [][lastCall'.op = "reset_idle_map" =>
          IF lastCall'.args < IDLE_THRESHOLD_SECS /\ tracker.previous_idle_map # EmptyMap
          THEN /\ tracker'.previous_idle_map = EmptyMap
               /\ [tracker' EXCEPT !.previous_idle_map = tracker.previous_idle_map]
                     = tracker
          ELSE tracker' = tracker]_vars

\* A reset at 5 s cleared a map that held idle periods.
C18_Witness ==
    /\ lastCall.op = "reset_idle_map"
    /\ lastCall.args = 5
    /\ lastCall.result >= 1
    /\ tracker.previous_idle_map = EmptyMap
    /\ tracker.previous_window_usage_map # EmptyMap

\* C21: the admission value the sampler sends each second equals
\* (idle-duration > configured idle threshold) /\ (cpu% <= cpu_threshold) /\
\* (ram% < ram_threshold) /\ (gpu% < gpu_threshold), the GPU metrics being 0
\* when GPU sampling fails; it is false whenever the idle-duration does not
\* exceed the threshold, and a GPU sampling failure alone never makes it false.
C21_AdmissionValue ==
    [][lastCall'.op = "check_system_usage" /\ samples' # samples =>
          LET a == lastCall'.args
              gpu_pct == IF a.gpu.ok THEN a.gpu.gpu ELSE 0
              idle == a.idle_time > a.config.idle_threshold_period
              cpu_ok == a.cpu <= a.config.cpu_threshold
              ram_ok == a.ram < a.config.ram_usage
              expected == idle /\ cpu_ok /\ ram_ok /\ gpu_pct < a.config.gpu_threshold
          IN  /\ a.config = app_config
              /\ lastCall'.result = expected
              /\ gate' = Append(gate, expected)
              /\ ~idle => ~lastCall'.result
              /\ (~a.gpu.ok /\ idle /\ cpu_ok /\ ram_ok) => lastCall'.result
    ]_vars

\* The sampler admitted work while GPU sampling failed, at the cpu threshold.
C21_Witness ==
    /\ lastCall.op = "check_system_usage"
    /\ ~lastCall.args.gpu.ok
    /\ lastCall.args.cpu = lastCall.args.config.cpu_threshold
    /\ lastCall.args.idle_time = 61
    /\ lastCall.args.config = AppConfigDefault
    /\ lastCall.result
    /\ gate # << >> /\ gate[Len(gate)]

\* The ranges the configuration's fields are to land in.
ClaimedRange ==
    [cpu_threshold |-> <<1, 100>>, gpu_threshold |-> <<1, 100>>,
     ram_usage |-> <<1, 100>>, gpu_ram |-> <<1, 100>>,
     timeout |-> <<900, 21600>>, db_update_interval |-> <<1, 900>>,
     idle_threshold_period |-> <<30, 3600>>]

\* `out` is `v` brought into lo..hi: kept when inside, else the nearest bound.
NearestInRange(v, out, lo, hi) ==
    /\ out >= lo /\ out <= hi
    /\ (v >= lo /\ v <= hi) => out = v
    /\ v < lo => out = lo
    /\ v > hi => out = hi

\* C22 as stated: for any input integers, deserializing yields an AppConfig
\* whose every field is the input brought into its range.
C22_EveryIntegerClamped ==
    (lastCall.op = "from_str" /\ ConfigFields \subseteq DOMAIN lastCall.args) =>
        /\ lastCall.result.ok
        /\ app_config = lastCall.result.config
        /\ \A key \in ConfigFields :
              NearestInRange(lastCall.args[key], lastCall.result.config[key],
                             ClaimedRange[key][1], ClaimedRange[key][2])

\* C22: deserializing an object that gives every field a number its type
\* accepts (no negative integer for timeout, db_update_interval and
\* idle_threshold_period) yields an AppConfig whose every field is the input
\* brought into its range, kept when in range and else the nearest bound; an
\* object with a negative integer for one of the three yields an error and
\* the default configuration is used.
C22_ClampedWhenParsed ==
    (lastCall.op = "from_str" /\ ConfigFields \subseteq DOMAIN lastCall.args) =>
        IF \A key \in IntFields : lastCall.args[key] >= 0
        THEN /\ lastCall.result.ok
             /\ app_config = lastCall.result.config
             /\ \A key \in ConfigFields :
                   NearestInRange(lastCall.args[key], lastCall.result.config[key],
                                  ClaimedRange[key][1], ClaimedRange[key][2])
        ELSE /\ ~lastCall.result.ok
             /\ app_config = AppConfigDefault

\* An object with values under, inside and over the ranges was deserialized.
C22_Witness ==
    /\ lastCall.op = "from_str"
    /\ ConfigFields \subseteq DOMAIN lastCall.args
    /\ lastCall.args.timeout = 21601
    /\ lastCall.args.db_update_interval = 300
    /\ lastCall.args.idle_threshold_period = 600
    /\ lastCall.args.cpu_threshold = -10
    /\ lastCall.args.gpu_threshold = 101
    /\ app_config = [cpu_threshold |-> 1, gpu_threshold |-> 100, ram_usage |-> 100,
                     gpu_ram |-> 1, timeout |-> 21600, db_update_interval |-> 300,
                     idle_threshold_period |-> 600]

\* C23: in the running tick loop each idle excursion gets a fresh IdlePeriod
\* id: when the idle-duration of a window that stays open has exceeded the
\* threshold (its IdlePeriod is held), was then read under the threshold by a
\* tick, and is read over the threshold again by the next update, the
\* IdlePeriod sent for the second excursion has another id than the first
\* one, so that the first period's end_time is not extended across the
\* active time in between.
C23_FreshIdPerExcursion ==
    [][\A t \in Titles :
          (/\ lastCall.op = "tick" /\ lastCall'.op = "tick"
           /\ ticks' = ticks + 1
           /\ t \in DOMAIN tracker.previous_idle_map
           /\ t \in DOMAIN lastCall.args.window_state.win
           /\ lastCall.args.idle0 < IDLE_THRESHOLD_SECS
           /\ t \in DOMAIN lastCall'.args.window_state.win
           /\ lastCall'.result
           /\ lastCall'.args.idle[t] > IDLE_THRESHOLD_SECS)
          => LET sent == chan'[Len(chan')].data.idle_periods
             IN  /\ t \in DOMAIN sent
                 /\ sent[t].id # tracker.previous_idle_map[t].id
    ]_vars

\* The apps that own an open AppUsage interval and are still in the snapshot
\* the tick kept in `call` took.
StillPresent(call) ==
    call.args.window_state.apps \cap DOMAIN tracker.previous_app_usage_map

Owners(snap) ==
    {IF snap.win[w].app_name = None THEN UnknownApp ELSE snap.win[w].app_name :
        w \in DOMAIN snap.win}

\* The ids of the intervals of the apps in `names` and of the windows present
\* in both snapshots are the same before and after the update of this step.
IdsKept(names, prev, cur) ==
    /\ \A a \in names :
          /\ a \in DOMAIN tracker.previous_app_usage_map
          /\ a \in DOMAIN tracker'.previous_app_usage_map
          /\ tracker'.previous_app_usage_map[a].id = tracker.previous_app_usage_map[a].id
    /\ \A w \in DOMAIN prev.win \cap DOMAIN cur.win :
          /\ w \in DOMAIN tracker.previous_window_usage_map
          /\ w \in DOMAIN tracker'.previous_window_usage_map
          /\ tracker'.previous_window_usage_map[w].app_id
                = tracker.previous_window_usage_map[w].app_id

C25_NamedIdsStable ==
    [][(lastCall'.op = "update" /\ ticks' = ticks + 1 /\ last_window_state.some) =>
          LET prev == last_window_state.value
              cur == lastCall'.args.window_state
          IN  IdsKept((Owners(prev) \cap Owners(cur)) \ {UnknownApp}, prev, cur)
    ]_vars

\* How often item n was dispatched.
Dispatches(n) == Cardinality({i \in DOMAIN dispatched : dispatched[i] = n})

\* C26: an item that was dispatched is not queued and dispatched again while
\* it awaits its result: no item has been dispatched more often than once
\* plus the number of messages the subscriber has received since the start.
C26_NoRedispatchWhileAwaiting ==
    \A i \in DOMAIN dispatched : Dispatches(dispatched[i]) <= 1 + msgCount

\* C27: the work queue is FIFO and refilled only when empty: a dispatch sends
\* the head of the queue, which holds the rows in the order
\* fetch_all_classification returned them; a dispatch that leaves items in the
\* queue leaves them unchanged; the dispatch that empties the queue is
\* followed at once by a refill with a fresh fetch (or ends the publisher when
\* the fetch fails); and the queue is filled otherwise only from empty, before
\* the loop.
C27_FifoRefilledWhenEmpty ==
    [][/\ dispatched' # dispatched =>
            /\ queue # << >>
            /\ dispatched' = Append(dispatched, Head(queue).name)
            /\ IF Tail(queue) # << >>
               THEN queue' = Tail(queue)
               ELSE \/ /\ pubPc' = "loop"
                       /\ queue' = fetch_all_classification(db, FALSE).rows
                    \/ /\ pubPc' = "ended"
                       /\ queue' = << >>
       /\ (queue' # queue /\ dispatched' = dispatched) =>
            /\ pubPc = "init"
            /\ queue = << >>
            /\ queue' = fetch_all_classification(db, FALSE).rows
    ]_vars

\* Both items were dispatched in the order they were fetched, and the dispatch
\* of the second refilled the queue.
C27_Witness ==
    /\ Len(dispatched) = 2
    /\ db = UnclassifiedStore
    /\ <<dispatched[1], dispatched[2]>>
          = <<fetch_all_classification(db, FALSE).rows[1].name,
              fetch_all_classification(db, FALSE).rows[2].name>>
    /\ queue = fetch_all_classification(db, FALSE).rows
    /\ pubPc = "loop"

\* C28: update_classification backs off outside the lock: while it waits
\* between two attempts it does not hold the connection mutex, so that a
\* usage batch the writer holds can take the connection (every store
\* operation waits for conn = "free") and be applied during the backoff;
\* between two steps of the subscriber the mutex is never held, it is held
\* only while a statement executes.
C28_BackoffOutsideLock ==
    /\ subPc = "backoff" => conn = "free"
    /\ conn # "subscriber"

\* A usage batch was applied while update_classification was backing off
\* after its first attempt, and the backoff is still under way.
C28_Witness ==
    /\ subPc = "backoff"
    /\ attempts = 1
    /\ lastCall.op = "process_updates"
    /\ lastCall.args.subPc = "backoff"
    /\ lastCall.args.attempts = 1
    /\ lastCall.result = "ok"

\* C29: a failed batch is dropped and never retried, and the writer keeps
\* going: process_updates is run on each batch once, the k-th run on batch k,
\* whatever the earlier runs returned; a run that returns an error leaves the
\* store as it was and is followed by the next rx.recv(); and the writer
\* leaves its loop only with the channel closed and empty.
C29_FailedBatchDropped ==
    [][/\ appliedCount' # appliedCount =>
            /\ wPc = "process"
            /\ appliedCount' = appliedCount + 1
            /\ wBatch.seq = appliedCount'
            /\ wPc' = "recv"
            /\ lastResult' = "err" => db' = db
       /\ (wPc' = "process" /\ wPc # "process") =>
            /\ wPc = "recv"
            /\ wBatch'.seq = appliedCount + 1
       /\ (wPc' = "done" /\ wPc # "done") =>
            /\ wPc = "recv"
            /\ chan = << >>
            /\ trackPc = "done"
    ]_vars

\* Batch 1 was rolled back with an error, and the writer has received batch 2
\* and is about to run process_updates on it.
C29_Witness ==
    /\ appliedCount = 1
    /\ lastResult = "err"
    /\ wPc = "process"
    /\ wBatch.seq = 2

\* C30: the publisher never dequeues from an empty work queue: whenever it is
\* about to receive true from the control channel the queue holds an item,
\* also when the store had no unclassified row at the initial fill or at a
\* refill, and the publisher task has not failed on an empty queue.
C30_NeverDequeuesEmpty ==
    /\ (pubPc = "loop" /\ PermitsDispatch(GateRecv)) => queue # << >>
    /\ pubEnd # "panic"

\* C31: no dispatch on a stale gate value. Whenever the publisher dispatches
\* an item, the admission value the sampler computed last (the newest element
\* of the control channel, which still holds the value being acted upon) is
\* true: a true that waits in the channel is not acted upon once the sampler
\* has computed false.
C31_NoStaleDispatch ==
    [][dispatched' # dispatched =>
          /\ gate # << >>
          /\ gate[Len(gate)] = TRUE]_vars

\* ------------------------ the service with more apps than one fetch returns
\* One app more than a fetch returns, none of them classified, and a
\* classifier agent that answers nothing.
BacklogApps == {"a" \o ToString(i) : i \in 1..(FETCH_LIMIT + 1)}

BacklogStore ==
    [EmptyStore EXCEPT
        !.apps = [n \in BacklogApps |-> "p1"],
        !.app_classifications = [n \in BacklogApps |-> None]]

InitBacklog == InitCommon /\ db = BacklogStore

\* The user stays idle and the machine under its thresholds: the sampler
\* sends true every second, for as long as the service runs.
BacklogIdle == {61}

BacklogSample ==
    SamplerLoop(FALSE, FALSE, BacklogIdle, PipelineCpu, PipelineRam, PipelineGpu)

PubStepLatest == PubStep(FALSE)

NextBacklog ==
    \/ OrchSpawnServer
    \/ PubInit
    \/ PubStepLatest
    \/ BacklogSample

\* The runtime polls each spawned task that is ready.
BacklogFairness ==
    /\ WF_vars(OrchSpawnServer)
    /\ WF_vars(PubInit)
    /\ WF_vars(PubStepLatest)
    /\ WF_vars(BacklogSample)

SpecBacklog == InitBacklog /\ [][NextBacklog]_vars /\ BacklogFairness

\* The apps the first fetch leaves out.
BeyondLimit == BacklogApps \ {r.name : r \in Range(fetch_all_classification(BacklogStore, FALSE).rows)}

\* C32: no starvation of unclassified apps. If the publisher receives true
\* from the admission gate infinitely often and the pipeline keeps running,
\* every app whose classification is NULL or "Unclassified" is eventually
\* dispatched, also with more unclassified apps than one fetch returns and
\* dispatched apps that never receive a result; stated for the apps that are
\* not among the rows of the first fetch.
C32_EveryUnclassifiedDispatched ==
    \A n \in BeyondLimit :
       (/\ []<>(pubPc = "loop" /\ PermitsDispatch(GateRecv))
        /\ [](pubPc # "ended"))
          => <>(\E i \in DOMAIN dispatched : dispatched[i] = n)

\* C33: the State Tracker opens or extends an IdlePeriod for a window exactly
\* when the idle-duration it measured for that window exceeds the configured
\* idle threshold (idle_threshold_period), the threshold the tick loop and
\* the admission sampler use: in the batch an updating tick sends, a window
\* of the snapshot has an IdlePeriod ending at the tick's time if and only if
\* its reading exceeded app_config.idle_threshold_period.
C33_IdleAgainstConfiguredThreshold ==
    [][(lastCall'.op = "tick" /\ ticks' = ticks + 1 /\ lastCall'.result) =>
          LET sent == chan'[Len(chan')].data.idle_periods
          IN  \A t \in DOMAIN lastCall'.args.window_state.win :
                 (t \in DOMAIN sent /\ sent[t].end_time = now')
                    <=> lastCall'.args.idle[t] > app_config.idle_threshold_period
    ]_vars

\* The ids of the intervals and idle periods a tracker holds.
HeldIds(t) ==
    {t.previous_app_usage_map[k].id : k \in DOMAIN t.previous_app_usage_map}
    \cup {t.previous_window_usage_map[k].app_id : k \in DOMAIN t.previous_window_usage_map}
    \cup {t.previous_idle_map[k].id : k \in DOMAIN t.previous_idle_map}

\* The ids of the entries of map m whose key is not in K.
IdsOutside(m, K, field) == {m[k][field] : k \in DOMAIN m \ K}

\* C34: cleanup invariant. Right after update(snapshot) the keys of the
\* WindowUsage map are the window titles of the snapshot, the keys of the
\* AppUsage map are among the snapshot's app names and the keys of the
\* IdlePeriod map among its window titles; the entries of vanished windows
\* and apps are gone, and their ids are not held any more nor handed out
\* again (every id held is below the next fresh one), so they are never
\* extended again.
C34_CleanupInvariant ==
    [][ticks' = ticks + 1 =>
          LET snap == last_window_state'.value
              gone ==
                  IdsOutside(tracker.previous_app_usage_map, snap.apps, "id")
                  \cup IdsOutside(tracker.previous_window_usage_map, DOMAIN snap.win, "app_id")
                  \cup IdsOutside(tracker.previous_idle_map, DOMAIN snap.win, "id")
          IN  /\ last_window_state'.some
              /\ DOMAIN tracker'.previous_window_usage_map = DOMAIN snap.win
              /\ DOMAIN tracker'.previous_app_usage_map \subseteq snap.apps
              /\ DOMAIN tracker'.previous_idle_map \subseteq DOMAIN snap.win
              /\ gone \cap HeldIds(tracker') = {}
              /\ \A id \in HeldIds(tracker') : id < nextId'
              /\ nextId' >= nextId
    ]_vars

\* The second update saw w1 alone after a first one with w1 and w2, both
\* idle: the entries of w2 and of its app a2 are gone, those of w1 are kept.
C34_Witness ==
    /\ ticks = 2
    /\ last_window_state.some
    /\ last_window_state.value = SnapOne
    /\ DOMAIN tracker.previous_window_usage_map = {"w1"}
    /\ DOMAIN tracker.previous_app_usage_map = {"a1"}
    /\ DOMAIN tracker.previous_idle_map = {"w1"}
    /\ "a2" \in DOMAIN tracker.previous_app_map
    /\ nextId = 7
    /\ HeldIds(tracker) = {1, 2, 3}

\* C35: the tracker's App map and classification set only grow. No update and
\* no reset_idle_map removes a name from them; after an update they hold the
\* app name (or the sentinel) of every window the update was handed; and the
\* state sent after the update carries them whole, so that the apps of every
\* batch include the apps of the batch before it: every batch re-sends all
\* apps seen since the tracker was created.
C35_AppsOnlyGrow ==
    [][/\ DOMAIN tracker.previous_app_map \subseteq DOMAIN tracker'.previous_app_map
       /\ tracker.previous_classification_map \subseteq tracker'.previous_classification_map
       /\ (lastCall'.op = "update" /\ ticks' = ticks + 1) =>
             LET seen == Owners(lastCall'.args.window_state)
                 sent == chan'[Len(chan')].data
             IN  /\ seen \subseteq DOMAIN tracker'.previous_app_map
                 /\ seen \subseteq tracker'.previous_classification_map
                 /\ sent.apps = tracker'.previous_app_map
                 /\ sent.classifications = tracker'.previous_classification_map
                 /\ \A i \in DOMAIN chan :
                       /\ DOMAIN chan[i].data.apps \subseteq DOMAIN sent.apps
                       /\ chan[i].data.classifications \subseteq sent.classifications
    ]_vars

\* After a first update with a1 and a2 the second one saw a lone window
\* without app name: both apps have left the AppUsage map and are still in the
\* App map, the classification set and the batch sent.
C35_Witness ==
    /\ lastCall.op = "update"
    /\ ticks = 2
    /\ lastCall.args.window_state = SnapAnon
    /\ DOMAIN tracker.previous_app_usage_map = {}
    /\ DOMAIN tracker.previous_app_map = {"a1", "a2", UnknownApp}
    /\ tracker.previous_classification_map = {"a1", "a2", UnknownApp}
    /\ DOMAIN chan[2].data.apps = {"a1", "a2", UnknownApp}
    /\ chan[2].data.classifications = {"a1", "a2", UnknownApp}

\* ------------------------------------------- limit enforcement (main2)
MaxSeconds == 1

\* DbHandler::get_current_app_usage_details: the usage query for today, with
\* no app name bound.
get_current_app_usage_details(d, today) == get_app_usage_details(d, today, today)

\* DbHandler::get_specific_app_details: the first row of the same query for
\* one app, or the InvalidQuery error when there is none.
get_specific_app_details(d, app_name, today) ==
    LET rows == SelectSeq(get_app_usage_details(d, today, today),
                          LAMBDA r : r.app_name = app_name)
    IN  IF rows = << >> THEN [ok |-> FALSE, rows |-> << >>]
        ELSE [ok |-> TRUE, rows |-> <<rows[1]>>]

\* seconds % alert_duration: the remainder; a zero divisor panics.
Remainder(n, d) ==
    IF d = 0 THEN [ok |-> FALSE, value |-> 0] ELSE [ok |-> TRUE, value |-> n % d]

\* app_manager_task: what the loop does for a row whose process is running.
\* total_hours is in hundredths of an hour, time_limit in minutes.
Enforcement(app_detail, seconds) ==
    LET limit == IF app_detail.time_limit.some THEN app_detail.time_limit.value ELSE 0
        total_spent == app_detail.total_hours * 60
        should_close == app_detail.should_close.some /\ app_detail.should_close.value
        should_alert == app_detail.should_alert.some /\ app_detail.should_alert.value
        r == Remainder(seconds, IF app_detail.alert_duration.some
                                THEN app_detail.alert_duration.value ELSE 300)
    IN  IF ~(total_spent >= limit * 100) THEN "none"
        ELSE IF should_close THEN "kill"
        ELSE IF ~should_alert THEN "none"
        ELSE IF ~r.ok THEN "panic"
        ELSE IF r.value = 0 THEN "toast"
        ELSE "none"

nonManagerVars ==
    <<trackerVars, ctrl_c, chanVars, writerVars, pipeVars, lastCall, app_config, conn>>

\* app_manager_task: the start of an iteration, refresh_processes and
\* get_current_app_usage_details.
ManagerQuery ==
    /\ manager.pc = "query"
    /\ conn = "free"
    /\ manager' = [manager EXCEPT
                      !.pc = "scan",
                      !.details = get_current_app_usage_details(db, DateOf(now))]
    /\ UNCHANGED <<db, nonManagerVars>>

\* app_manager_task: the body of `for app_detail in app_details` for the next
\* row; a process of that name runs or not, and the toast is shown or fails
\* to be created.
ManagerVisit ==
    /\ manager.pc = "scan"
    /\ manager.details # << >>
    /\ \E running \in BOOLEAN, shown \in BOOLEAN :
         LET app_detail == Head(manager.details)
             what == IF running THEN Enforcement(app_detail, manager.seconds) ELSE "none"
             r == get_specific_app_details(db, app_detail.app_name, DateOf(now))
         IN  /\ what = "toast" => conn = "free"
             /\ manager' =
                  IF what = "panic" THEN [manager EXCEPT !.pc = "panicked"]
                  ELSE IF what = "toast" /\ r.ok /\ shown
                  THEN [manager EXCEPT !.pc = "toast", !.toast = r.rows,
                                       !.details = Tail(@)]
                  ELSE [manager EXCEPT !.details = Tail(@)]
    /\ UNCHANGED <<db, nonManagerVars>>

\* The minutes the user can ask for in the toast.
ToastMinutes == {45}

\* spawn_toast_notification: the loop over rx.recv() gets the user's answer;
\* on Accept the limit is written back, extended, with the values read when
\* the toast was created.
ToastResult ==
    /\ manager.pc = "toast"
    /\ \E answer \in {"Accept", "Dismiss", "Failed"}, v \in ToastMinutes :
         LET app_usage == manager.toast[1]
         IN  IF answer = "Accept"
             THEN /\ conn = "free"
                  /\ db' = insert_update_app_limits(db, app_usage.app_name,
                               app_usage.time_limit.value + v,
                               app_usage.should_alert.value,
                               app_usage.should_close.value,
                               app_usage.alert_before_close.value,
                               app_usage.alert_duration.value)
             ELSE db' = db
    /\ manager' = [manager EXCEPT !.pc = "scan", !.toast = << >>]
    /\ UNCHANGED nonManagerVars

\* app_manager_task: the end of an iteration, sleep and seconds += 1.
ManagerSleep ==
    /\ manager.pc = "scan"
    /\ manager.details = << >>
    /\ manager.seconds < MaxSeconds
    /\ manager' = [manager EXCEPT !.pc = "query", !.seconds = @ + 1]
    /\ UNCHANGED <<db, nonManagerVars>>

\* A store an earlier run left: a1 used for two hours today, with a limit of
\* 90 minutes and an alert.
LimitsStore ==
    [SeededStore EXCEPT
        !.app_usage_time_period =
            [id \in {0} |-> [app_name |-> "a1", start_time |-> 0,
                             end_time |-> 2 * SecondsPerHour]]]

LimitsSnapshots == {SnapTwoApps}
LimitsIdle == {5}
LimitsApps == {"a1"}
LimitsMinutes == {30}
LimitsAlertDurations == {0, 2}

LimitsSetDailyLimit ==
    SetDailyLimitCommand(FALSE, LimitsApps, LimitsMinutes, LimitsAlertDurations)

InitLimits == InitCommon /\ db = LimitsStore

NextLimits ==
    \/ TrackTick(LimitsSnapshots, LimitsIdle, ServiceSteps, ServiceSkews)
    \/ WriterSession
    \/ WriterRecv
    \/ WriterProcess
    \/ LimitsSetDailyLimit
    \/ ManagerQuery
    \/ ManagerVisit
    \/ ToastResult
    \/ ManagerSleep

SpecLimits == InitLimits /\ [][NextLimits]_vars

\* C36: no daily_limits row ever has should_alert and should_close both set,
\* in any store reached by set_daily_limit calls (every combination of the
\* three flags, the conflicting one included), by the default-limit upserts of
\* the batches applied, and by the extensions the accepted toast writes back
\* from the row it read when it was created.
C36_NeverAlertAndClose ==
    \A n \in DOMAIN db.daily_limits :
        ~(db.daily_limits[n].should_alert = 1 /\ db.daily_limits[n].should_close = 1)

\* All three writers have acted: a1's limit was set to 30 minutes with an
\* alert every 2 seconds and then extended by the toast to 75, and a batch
\* gave a2 the default row.
C36_Witness ==
    /\ appliedCount >= 1
    /\ "a2" \in DOMAIN db.daily_limits
    /\ db.daily_limits["a2"].time_limit = DEFAULT_TIME_LIMIT
    /\ db.daily_limits["a1"] =
          [time_limit |-> 75, should_alert |-> 1, should_close |-> 0,
           alert_before_close |-> 0, alert_duration |-> 2]

\* UPSET_TIME_LIMIT: the row its VALUES clause inserts.
DefaultLimitRow ==
    [time_limit |-> DEFAULT_TIME_LIMIT, should_alert |-> 0, should_close |-> 0,
     alert_before_close |-> 0, alert_duration |-> DEFAULT_ALERT_DURATION]

\* C37: applying a batch never changes an existing daily limit. Over every
\* step in which process_updates ran (committed, or failed at any statement
\* or at the commit): each daily_limits row there was before is there
\* afterwards with the same values, whether the user set it, the toast
\* extended it or an earlier batch inserted it; a row that is new belongs to
\* an app of the batch and is the default row (60 minutes, no alert, no
\* close); and after a committed batch every app of the batch has a row.
C37_BatchKeepsLimits ==
    [][appliedCount' # appliedCount =>
          LET batchApps == {wBatch.data.apps[k].name : k \in DOMAIN wBatch.data.apps}
          IN  /\ \A n \in DOMAIN db.daily_limits :
                    /\ n \in DOMAIN db'.daily_limits
                    /\ db'.daily_limits[n] = db.daily_limits[n]
              /\ \A n \in DOMAIN db'.daily_limits \ DOMAIN db.daily_limits :
                    /\ n \in batchApps
                    /\ db'.daily_limits[n] = DefaultLimitRow
              /\ lastResult' = "ok" => batchApps \subseteq DOMAIN db'.daily_limits
              /\ lastResult' = "err" => db' = db
    ]_vars

\* Two batches, each with a1 and a2, have been applied, the second one
\* committed: a1 holds the limit the user set (30 minutes, close), a2 the
\* default row.
C37_Witness ==
    /\ appliedCount = 2
    /\ lastResult = "ok"
    /\ wPc = "recv"
    /\ {wBatch.data.apps[k].name : k \in DOMAIN wBatch.data.apps} = {"a1", "a2"}
    /\ db.daily_limits["a1"] =
          [time_limit |-> 30, should_alert |-> 0, should_close |-> 1,
           alert_before_close |-> 1, alert_duration |-> 0]
    /\ "a2" \in DOMAIN db.daily_limits
    /\ db.daily_limits["a2"] = DefaultLimitRow

\* C38: the limit-enforcement loop is well defined for every daily limit
\* set_daily_limit can store: whatever the flags and the alert_duration
\* accepted (0 included), evaluating seconds % alert_duration for a running
\* app that is over its limit does not fail, and app_manager_task keeps
\* running.
C38_EnforcementKeepsRunning == manager.pc # "panicked"

\* process_updates: the place of a statement's loop among its five loops; the
\* default-limit upsert shares the loop of the app upsert.
StatementRank(kind) ==
    CASE kind \in {"app", "limit"} -> 1
      [] kind = "app_time" -> 2
      [] kind = "usage" -> 3
      [] kind = "classification" -> 4
      [] kind = "idle" -> 5

\* The arguments of the statements of one kind.
StatementArgs(stmts, kind) == {stmts[i].arg : i \in {j \in DOMAIN stmts : stmts[j].kind = kind}}

\* C39: within one batch transaction the statements run in the fixed
\* dependency order. For every batch process_updates is applied to: every app
\* upsert (with its default limit) comes before any app-usage-interval
\* upsert, every app-usage-interval upsert before any window-usage upsert,
\* every window-usage upsert before any classification placeholder, every
\* placeholder before any idle-period upsert; and each entry of the batch's
\* five collections has its statement.
C39_StatementOrder ==
    [][appliedCount' # appliedCount =>
          LET b == wBatch.data
              stmts == BatchStatements(b)
          IN  /\ \A i, j \in DOMAIN stmts :
                    i < j => StatementRank(stmts[i].kind) <= StatementRank(stmts[j].kind)
              /\ StatementArgs(stmts, "app") = {b.apps[k] : k \in DOMAIN b.apps}
              /\ StatementArgs(stmts, "limit") = {b.apps[k].name : k \in DOMAIN b.apps}
              /\ StatementArgs(stmts, "app_time") =
                    {b.app_usages[k] : k \in DOMAIN b.app_usages}
              /\ StatementArgs(stmts, "usage") =
                    {b.window_usages[k] : k \in DOMAIN b.window_usages}
              /\ StatementArgs(stmts, "classification") = b.classifications
              /\ StatementArgs(stmts, "idle") =
                    {b.idle_periods[k] : k \in DOMAIN b.idle_periods}
    ]_vars

\* A committed batch with statements of all five loops: two apps, their
\* intervals, windows and placeholders, and an idle period.
C39_Witness ==
    /\ appliedCount >= 1
    /\ lastResult = "ok"
    /\ wPc = "recv"
    /\ Cardinality(DOMAIN wBatch.data.apps) >= 2
    /\ Cardinality(DOMAIN wBatch.data.app_usages) >= 2
    /\ Cardinality(DOMAIN wBatch.data.window_usages) >= 2
    /\ Cardinality(wBatch.data.classifications) >= 2
    /\ DOMAIN wBatch.data.idle_periods # {}
    /\ DOMAIN db.app_idle_time_period # {}

\* C40: the session row is written once per process run, before the first
\* usage batch is applied, and stays; every window-usage and idle-period row
\* of the run carries that session_id. Each row of window_activity_usage and
\* app_idle_time_period (the stores of the model start without any) has
\* SessionId as its session_id, and the store that holds such a row holds the
\* session row of SessionId, written before the batch that brought it.
C40_SessionWrittenBeforeBatches ==
    /\ \A id \in DOMAIN db.window_activity_usage :
          /\ db.window_activity_usage[id].session_id = SessionId
          /\ SessionId \in db.sessions
    /\ \A id \in DOMAIN db.app_idle_time_period :
          /\ db.app_idle_time_period[id].session_id = SessionId
          /\ SessionId \in db.sessions

====
